---- MODULE Spec2Model ----
(***************************************************************************)
(* State machine of the CAN node/sub-module discovery and configuration    *)
(* engine of gordonthree/can-bus-app.                                      *)
(*                                                                         *)
(* src/unnamed/part_001 holds two listings of the server: the first one    *)
(* (lines 1-720) and the second one (lines 721-1689).  The interview state *)
(* machine (updateNodeDatabase) is the same text in both; the operator     *)
(* message handler and handleNodeConfigUpdate differ.  The variable rev    *)
(* says which listing runs.                                                *)
(*                                                                         *)
(* JavaScript values: numbers are integers, `undefined` is Undef, JSON     *)
(* null is Null, an object is a function from its property names to their  *)
(* values (a property that was never assigned is not in the DOMAIN).       *)
(***************************************************************************)
EXTENDS Integers, Sequences, FiniteSets, TLC

VARIABLES
    rev,             \* the listing that runs: 1 (first), 2 (second)
    clients,         \* wss.clients: operator port -> readyState of its socket
    isAlive,         \* ws.isAlive of the sockets of wss.clients
    silent,          \* heartbeat ticks since a port connected or answered last
    canDatabase,     \* in-memory inventory: hex node id -> node object
    node_inventory,  \* SQLite table node_inventory: node_id -> row
    node_history,    \* SQLite table node_history: sequence of rows
    audit_log,       \* SQLite table audit_log: sequence of rows
    lastReqIntro,    \* time of the last scheduled "request intro" frame
    lastTsMsg,       \* time of the last epoch frame
    now,             \* the clock, Date.now()
    dbFail,          \* the prepared statements whose run() throws
    ev,              \* the event handled last
    fx,              \* what the handler of ev did, in program order
    nEvents          \* events so far

vars == <<rev, clients, isAlive, silent, canDatabase, node_inventory, node_history, audit_log,
          lastReqIntro, lastTsMsg, now, dbFail, ev, fx, nEvents>>

----------------------------------------------------------------------------
(* Bounds of the model *)

MaxEvents == 4

----------------------------------------------------------------------------
(* Program constants *)

CAN_STD_DLC == 8
CAN_FIRST_MSG == 256
CAN_LAST_MSG == 2047
NODE_ID_BYTE_LENGTH == 4
INTRO_MSG_DLC == 8
SUBMODCNT_OFFSET == 4
CONFIGCRC_OFFSET == 5
INTRO_MSG_BEGIN == 1920
INTRO_MSG_END == 2047
SUBMOD_INTRO_BEGIN == 1792
SUBMOD_INTRO_END == 1919
SUBMODID_OFFSET == 4
NODE_MAX_SUBMODS == 8
SUBMOD_PARTB_OFFSET == 128
SUBMOD_PARTB_MASK == 127
SUBMOD_RAW0_OFFSET == 5
SUBMOD_RAW1_OFFSET == 6
SUBMOD_RAW2_OFFSET == 7
SUBMOD_RAW_CFG_BYTES == 3
SUBMOD_DATAMSGID_MSB_OFFSET == 5
SUBMOD_DATAMSGID_LSB_OFFSET == 6
SUBMOD_DATAMSGDLC_OFFSET == 7
BYTE_MASK == 255
CAN_DLC_MASK == 15
maxReqIntro == 1800000
sendTsInterval == 10000
HEARTBEAT_INTERVAL == 30000
myNodeId == <<25, 0, 0, 25>>

(* Arbitration ids and buffer sizes of can_constants.js, which is not among
   the sources: the ids are kept symbolic, the two buffer sizes are the
   8 bytes of the payload layout of the specification. *)
ACK_INTRO_ID == "ACK_INTRO_ID"
REQ_NODE_INTRO_ID == "REQ_NODE_INTRO_ID"
DATA_EPOCH_ID == "DATA_EPOCH_ID"
CFG_SUB_DATA_MSG_ID == "CFG_SUB_DATA_MSG_ID"
CFG_SUB_RAW_DATA_ID == "CFG_SUB_RAW_DATA_ID"
CFG_SUB_DATA_MSG_DLC == 8
CFG_SUB_RAW_DATA_DLC == 8

\* LIMIT of selectRecentAudit
AuditLimit == 20

----------------------------------------------------------------------------
(* JavaScript values and operators *)

Undef == -1
Null == -2

EmptyObj == <<>>

Has(o, f) == f \in DOMAIN o

\* o[f]: undefined when the property is missing
Get(o, f) == IF f \in DOMAIN o THEN o[f] ELSE Undef

\* o[f] = v
Put(o, f, v) == [g \in (DOMAIN o) \cup {f} |-> IF g = f THEN v ELSE o[g]]

\* a boolean property used as a condition: a missing property is falsy
Flag(o, f) == (f \in DOMAIN o) /\ o[f]

\* ToInt32 of a byte or undefined, as the bitwise operators apply it
ToInt(v) == IF v = Undef THEN 0 ELSE v

\* data[i] of a Buffer (0-based): undefined past its end
At(data, i) == IF i + 1 <= Len(data) THEN data[i + 1] ELSE Undef

\* a >= b of two numbers, false when either operand is NaN (from undefined)
JsGE(a, b) == a # Undef /\ b # Undef /\ a >= b

\* a < b, false when either operand is NaN
JsLT(a, b) == a # Undef /\ b # Undef /\ a < b

\* a <= b, false when either operand is NaN
JsLE(a, b) == a # Undef /\ b # Undef /\ a <= b

\* cnt - 1:  NaN (kept as Undef) when cnt is undefined
JsMinus1(cnt) == IF cnt = Undef THEN Undef ELSE cnt - 1

\* (hi << 8) | (lo & 0xFF) on bytes
BE16(hi, lo) == ToInt(hi) * 256 + (ToInt(lo) % (BYTE_MASK + 1))

HexDigits == <<"0", "1", "2", "3", "4", "5", "6", "7",
               "8", "9", "a", "b", "c", "d", "e", "f">>

HexVal(c) == (CHOOSE i \in 1..16 : HexDigits[i] = c) - 1

\* byte.toString(16).padStart(2, '0') of every byte, joined
toHexString(byteArray) ==
    [i \in 1..(2 * Len(byteArray)) |->
        IF i % 2 = 1 THEN HexDigits[(byteArray[(i + 1) \div 2] \div 16) + 1]
                     ELSE HexDigits[(byteArray[i \div 2] % 16) + 1]]

\* parseInt(hexString.substr(i, 2), 16) for i = 0, 2, 4, ...
\* (a last single character parses alone)
hexStringToByteArray(hexString) ==
    [k \in 1..((Len(hexString) + 1) \div 2) |->
        IF 2 * k <= Len(hexString)
        THEN HexVal(hexString[2 * k - 1]) * 16 + HexVal(hexString[2 * k])
        ELSE HexVal(hexString[2 * k - 1])]

\* Buffer.alloc(8) filled from dataArray by writeUInt8, index < 8
PackBE8(dataArray) ==
    [i \in 1..CAN_STD_DLC |-> IF i <= Len(dataArray) THEN dataArray[i] ELSE 0]

\* the node id is the first four payload bytes; the master's id when fewer
getNodeId(msg) ==
    IF Len(msg.data) < NODE_ID_BYTE_LENGTH THEN myNodeId
    ELSE <<msg.data[1], msg.data[2], msg.data[3], msg.data[4]>>

\* msg.in is no property of a frame: `undefined <= CAN_LAST_MSG` is false,
\* so the function returns null for every frame
getMsgId(msg) ==
    IF msg.id >= CAN_FIRST_MSG /\ JsLE(Undef, CAN_LAST_MSG) THEN msg.id ELSE Null

unpackByteSeven(byteValue) ==
    [dlc |-> ToInt(byteValue) % (CAN_DLC_MASK + 1),
     saveState |-> ((ToInt(byteValue) \div SUBMOD_PARTB_OFFSET) % 2) = 1]

----------------------------------------------------------------------------
(* The run of one handler: the state it works on, what it did so far (fx, in
   program order) and whether an exception is propagating (threw). *)

Ctx == [db |-> canDatabase, inv |-> node_inventory, hist |-> node_history,
        audit |-> audit_log, lri |-> lastReqIntro, lts |-> lastTsMsg,
        fx |-> <<>>, threw |-> FALSE]

Emit(S, e) == [S EXCEPT !.fx = Append(@, e)]

Throw(S) == [S EXCEPT !.threw = TRUE]

\* channel.send({id, data})
Send(S, id, data) == Emit(S, <<"send", id, data>>)

\* Buffer.alloc(8), dataArray written byte by byte, channel.send
writeCanMessageBE(S, id, dataArray) == Send(S, id, PackBE8(dataArray))

----------------------------------------------------------------------------
(* Persistence layer *)

\* better-sqlite3 binds undefined as NULL
Bind(v) == IF v = Undef THEN Null ELSE v

IntProps == {"subModIdx", "lastSeen", "introMsgId", "introMsgDlc",
             "dataMsgId", "dataMsgDlc"}

\* JSON.stringify of an array: undefined elements become null
JsonArray(a) == [i \in DOMAIN a |-> IF a[i] = Undef THEN Null ELSE a[i]]

\* JSON.stringify of a sub-module: properties holding undefined are left out
JsonSub(o) ==
    [f \in {g \in DOMAIN o : ~(g \in IntProps /\ o[g] = Undef)} |->
        IF f = "rawConfig" THEN JsonArray(o[f]) ELSE o[f]]

\* JSON.stringify(nodeData.subModule), up to the order of the properties
JsonSubModule(subModule) == [k \in DOMAIN subModule |-> JsonSub(subModule[k])]

\* INSERT INTO node_inventory ... ON CONFLICT(node_id) DO UPDATE (first_seen
\* is not among the updated columns)
insertInventory(inv, nodeId, nodeData) ==
    LET row == [node_id |-> nodeId,
                node_type_msg |-> Bind(Get(nodeData, "nodeTypeMsg")),
                sub_mod_cnt |-> Bind(Get(nodeData, "subModCnt")),
                config_crc |-> Bind(Get(nodeData, "configCrc")),
                first_seen |-> IF nodeId \in DOMAIN inv
                               THEN inv[nodeId].first_seen
                               ELSE Bind(Get(nodeData, "firstSeen")),
                last_seen |-> Bind(Get(nodeData, "lastSeen")),
                is_active |-> 1,
                full_data |-> JsonSubModule(nodeData.subModule)]
    IN [k \in (DOMAIN inv) \cup {nodeId} |-> IF k = nodeId THEN row ELSE inv[k]]

syncNodeToDatabase(S, nodeId, nodeData) ==
    IF "insertInventory" \in dbFail THEN Throw(S)
    ELSE Emit([S EXCEPT !.inv = insertInventory(S.inv, nodeId, nodeData)],
              <<"inventory", nodeId>>)

\* insertHistorySnapshot.run(id, nodeTypeMsg, subModCnt, crc, Date.now(), json)
insertHistorySnapshot(S, nodeId, nodeTypeMsg, subModCnt, crc, subModule) ==
    IF "insertHistorySnapshot" \in dbFail THEN Throw(S)
    ELSE LET row == [node_id |-> nodeId,
                     node_type_msg |-> Bind(nodeTypeMsg),
                     sub_mod_cnt |-> Bind(subModCnt),
                     config_crc |-> Bind(crc),
                     recorded_at |-> now,
                     full_data |-> JsonSubModule(subModule)]
         IN Emit([S EXCEPT !.hist = Append(@, row)], <<"history", row>>)

recordNodeSnapshot(S, nodeId, nodeData) ==
    LET S1 == syncNodeToDatabase(S, nodeId, nodeData)
    IN IF S1.threw THEN S1
       ELSE insertHistorySnapshot(S1, nodeId, Get(nodeData, "nodeTypeMsg"),
                                  Get(nodeData, "subModCnt"),
                                  Get(nodeData, "configCrc"), nodeData.subModule)

\* insertAudit.run(nodeId, subIdx, field, JSON.stringify(old), JSON.stringify(new))
logManualChange(S, nodeId, subIdx, field, oldVal, newVal) ==
    IF "insertAudit" \in dbFail THEN Throw(S)
    ELSE LET row == [node_id |-> nodeId, sub_idx |-> subIdx, field |-> field,
                     old_value |-> oldVal, new_value |-> newVal]
         IN Emit([S EXCEPT !.audit = Append(@, row)], <<"audit", row>>)

----------------------------------------------------------------------------
(* Interview state machine: updateNodeDatabase *)

\* an acknowledgement that names the master
sendAckMsg_MutMaster(S, msg) == writeCanMessageBE(S, ACK_INTRO_ID, myNodeId)

\* an acknowledgement that is not sent
sendAckMsg_Mut(S, msg) == S

\* sendAckMsg: getMsgId returns null, and null >= SUBMOD_INTRO_BEGIN is false,
\* so the early return is taken exactly when the payload is shorter than 4
sendAckMsg(S, msg) ==
    LET messageId == getMsgId(msg)
        inIntroRange == messageId # Null /\ messageId >= SUBMOD_INTRO_BEGIN
                                         /\ messageId <= INTRO_MSG_END
    IN IF Len(msg.data) < NODE_ID_BYTE_LENGTH /\ ~inIntroRange THEN S
       ELSE writeCanMessageBE(S, ACK_INTRO_ID, getNodeId(msg))

\* the new record of a node seen for the first time
newNode == [subModule |-> EmptyObj, lastSubModIdx |-> 0]

\* the CRC of a node-intro frame, bytes 5 and 6
incomingCrcOf(msg) ==
    BE16(At(msg.data, CONFIGCRC_OFFSET), At(msg.data, CONFIGCRC_OFFSET + 1))

\* the detection reading the column name config_crc, which no node carries
crcChanged_Mut(isKnownNode, myNode, incomingCrc) ==
    isKnownNode /\ Get(myNode, "config_crc") # Undef
                /\ Get(myNode, "config_crc") # incomingCrc

\* the detection without the comparison of the two CRCs
crcChanged_MutEq(isKnownNode, myNode, incomingCrc) ==
    isKnownNode /\ Get(myNode, "configCrc") # Undef

\* CRC change detection
crcChanged(isKnownNode, myNode, incomingCrc) ==
    isKnownNode /\ Get(myNode, "configCrc") # Undef
                /\ Get(myNode, "configCrc") # incomingCrc

\* an update of memory that starts the sub-module map afresh when the CRC
\* of the frame is not the stored one
overwriteNode_Mut(myNode, nodeString, msg, incomingCrc) ==
    LET n0 == IF Get(myNode, "configCrc") # incomingCrc
              THEN Put(myNode, "subModule", EmptyObj) ELSE myNode
        n1 == Put(n0, "nodeId", nodeString)
        n2 == Put(n1, "lastSeen", now)
        n3 == Put(n2, "nodeTypeMsg", msg.id)
        n4 == Put(n3, "nodeTypeDlc", INTRO_MSG_DLC)
        n5 == Put(n4, "subModCnt", At(msg.data, SUBMODCNT_OFFSET))
        n6 == Put(n5, "configCrc", incomingCrc)
    IN IF Get(n6, "firstSeen") = Undef \/ Get(n6, "firstSeen") = 0
       THEN Put(n6, "firstSeen", now) ELSE n6

\* "Update memory with the latest bus data" and the first-seen time
\* (firstSeen is set when it is missing or 0)
overwriteNode(myNode, nodeString, msg, incomingCrc) ==
    LET n1 == Put(myNode, "nodeId", nodeString)
        n2 == Put(n1, "lastSeen", now)
        n3 == Put(n2, "nodeTypeMsg", msg.id)
        n4 == Put(n3, "nodeTypeDlc", INTRO_MSG_DLC)
        n5 == Put(n4, "subModCnt", At(msg.data, SUBMODCNT_OFFSET))
        n6 == Put(n5, "configCrc", incomingCrc)
    IN IF Get(n6, "firstSeen") = Undef \/ Get(n6, "firstSeen") = 0
       THEN Put(n6, "firstSeen", now) ELSE n6

\* the test against the count instead of the last 0-based index
interviewDone_Mut(myNode) ==
    JsGE(Get(myNode, "lastSubModIdx"), Get(myNode, "subModCnt"))

\* the test that ends the interview of a node
interviewDone(myNode) ==
    JsGE(Get(myNode, "lastSubModIdx"), JsMinus1(Get(myNode, "subModCnt")))

\* the branch without the assignment to introComplete
markComplete_Mut(myNode) == myNode

\* "Mark this interview as complete"
markComplete(myNode) == Put(myNode, "introComplete", TRUE)

\* node-intro branch (0x780..0x7FF)
nodeIntro(S, msg, nodeString) ==
    LET isKnownNode == nodeString \in DOMAIN S.db
        S0 == IF isKnownNode THEN S
              ELSE Emit([S EXCEPT !.db = [k \in (DOMAIN S.db) \cup {nodeString} |->
                                            IF k = nodeString THEN newNode ELSE S.db[k]]],
                        <<"create", nodeString>>)
        myNode == S0.db[nodeString]
        incomingCrc == incomingCrcOf(msg)
        S1 == IF crcChanged(isKnownNode, myNode, incomingCrc)
              THEN recordNodeSnapshot(S0, nodeString, myNode) ELSE S0
        updated == overwriteNode(myNode, nodeString, msg, incomingCrc)
        S2 == Emit([S1 EXCEPT !.db[nodeString] = updated], <<"memory", nodeString>>)
    IN IF S1.threw THEN S1
       ELSE IF interviewDone(updated)
       THEN LET done == markComplete(updated)
            IN syncNodeToDatabase([S2 EXCEPT !.db[nodeString] = done], nodeString, done)
       ELSE sendAckMsg(S2, msg)

\* the early exit looking at the entry after the one the frame names
alreadyInterviewed_Mut(node, workingIdx) ==
    /\ workingIdx + 1 \in DOMAIN node.subModule
    /\ Flag(node.subModule[workingIdx + 1], "partAComplete")
    /\ Flag(node.subModule[workingIdx + 1], "partBComplete")

\* an early exit that is never taken
alreadyInterviewed_MutNever(node, workingIdx) == FALSE

\* "Exit if sub-module interview is already complete": the property reads
\* throw when the sub-module is missing, and the catch block goes on
alreadyInterviewed(node, workingIdx) ==
    /\ workingIdx \in DOMAIN node.subModule
    /\ Flag(node.subModule[workingIdx], "partAComplete")
    /\ Flag(node.subModule[workingIdx], "partBComplete")

\* the sub-module entry created when it is missing
newSubModule == [rawConfig |-> [i \in 1..SUBMOD_RAW_CFG_BYTES |-> 0]]

\* first introduction phase
phaseA(targetSub, msg) ==
    Put(Put(targetSub, "rawConfig", <<At(msg.data, SUBMOD_RAW0_OFFSET),
                                         At(msg.data, SUBMOD_RAW1_OFFSET),
                                         At(msg.data, SUBMOD_RAW2_OFFSET)>>),
        "partAComplete", TRUE)

\* a second phase that clears what the first phase stored
phaseB_Mut(targetSub, msg) ==
    LET u == unpackByteSeven(At(msg.data, SUBMOD_DATAMSGDLC_OFFSET))
        t0 == Put(targetSub, "rawConfig", newSubModule.rawConfig)
        t1 == Put(t0, "dataMsgId",
                  BE16(At(msg.data, SUBMOD_DATAMSGID_MSB_OFFSET),
                       At(msg.data, SUBMOD_DATAMSGID_LSB_OFFSET)))
        t2 == Put(t1, "dataMsgDlc", u.dlc)
        t3 == Put(t2, "saveState", u.saveState)
    IN Put(t3, "partBComplete", TRUE)

\* second introduction phase
phaseB(targetSub, msg) ==
    LET u == unpackByteSeven(At(msg.data, SUBMOD_DATAMSGDLC_OFFSET))
        t1 == Put(targetSub, "dataMsgId",
                  BE16(At(msg.data, SUBMOD_DATAMSGID_MSB_OFFSET),
                       At(msg.data, SUBMOD_DATAMSGID_LSB_OFFSET)))
        t2 == Put(t1, "dataMsgDlc", u.dlc)
        t3 == Put(t2, "saveState", u.saveState)
    IN Put(t3, "partBComplete", TRUE)

\* the highest index of the node whose two phases are complete
completedIdx_Mut(node, subModIdx) ==
    LET done == {i \in DOMAIN node.subModule :
                    i # Undef /\ Flag(node.subModule[i], "partAComplete")
                              /\ Flag(node.subModule[i], "partBComplete")}
    IN CHOOSE i \in done : \A j \in done : j <= i

\* the value stored in parent.lastSubModIdx when a sub-module completes
completedIdx(node, subModIdx) == subModIdx

\* a read of the parent that creates the record of a node it does not find
parentNode_Mut(S, nodeString) ==
    IF nodeString \in DOMAIN S.db THEN S
    ELSE [S EXCEPT !.db = [k \in (DOMAIN S.db) \cup {nodeString} |->
                             IF k = nodeString THEN newNode ELSE S.db[k]]]

\* canDatabase[nodeString] of the sub-module branch: a read
parentNode(S, nodeString) == S

\* an index check that lets every index pass
outOfRange_Mut(subModIdx) == FALSE

\* subModIdx >= NODE_MAX_SUBMODS
outOfRange(subModIdx) == JsGE(subModIdx, NODE_MAX_SUBMODS)

\* sub-module-intro branch (0x700..0x77F)
subModIntro(S0, msg, nodeString) ==
    LET S == parentNode(S0, nodeString)
    IN
    IF nodeString \notin DOMAIN S.db THEN S
    ELSE
    LET node == S.db[nodeString]
        tag == At(msg.data, SUBMODID_OFFSET)
        workingIdx == ToInt(tag) % (SUBMOD_PARTB_MASK + 1)
        subModPartB == JsGE(tag, SUBMOD_PARTB_OFFSET)
        subModIdx == IF subModPartB THEN workingIdx ELSE tag
    IN IF alreadyInterviewed(node, workingIdx) THEN S
       ELSE IF outOfRange(subModIdx) THEN S
       ELSE
       LET sub0 == IF subModIdx \in DOMAIN node.subModule
                   THEN node.subModule[subModIdx] ELSE newSubModule
           t1 == Put(sub0, "subModIdx", subModIdx)
           t2 == Put(t1, "lastSeen", now)
           t3 == Put(t2, "introMsgId", msg.id)
           t4 == Put(t3, "introMsgDlc", INTRO_MSG_DLC)
           targetSub == IF subModPartB THEN phaseB(t4, msg) ELSE phaseA(t4, msg)
           node1 == [node EXCEPT !.subModule =
                        [k \in (DOMAIN node.subModule) \cup {subModIdx} |->
                            IF k = subModIdx THEN targetSub ELSE node.subModule[k]]]
           complete == Flag(targetSub, "partAComplete") /\ Flag(targetSub, "partBComplete")
           node2 == IF complete
                    THEN Put(node1, "lastSubModIdx", completedIdx(node1, subModIdx))
                    ELSE node1
           S1 == Emit([S EXCEPT !.db[nodeString] = node2], <<"memory", nodeString>>)
           S2 == IF complete THEN syncNodeToDatabase(S1, nodeString, node2) ELSE S1
       IN IF S2.threw THEN S2 ELSE sendAckMsg(S2, msg)

\* a length check that asks for one byte only
tooShort_MutOne(msg) == Len(msg.data) < 1

\* a length check that lets every frame pass
tooShort_Mut(msg) == FALSE

\* msg.data.length < NODE_ID_BYTE_LENGTH
tooShort(msg) == Len(msg.data) < NODE_ID_BYTE_LENGTH

\* a sub-module range that begins one id early
updateNodeDatabase_Mut(S, msg) ==
    IF tooShort(msg) THEN S
    ELSE LET nodeString == toHexString(getNodeId(msg))
         IN IF msg.id >= INTRO_MSG_BEGIN /\ msg.id <= INTRO_MSG_END
            THEN nodeIntro(S, msg, nodeString)
            ELSE IF msg.id >= SUBMOD_INTRO_BEGIN - 1 /\ msg.id <= SUBMOD_INTRO_END
            THEN subModIntro(S, msg, nodeString)
            ELSE S

updateNodeDatabase(S, msg) ==
    IF tooShort(msg) THEN S
    ELSE LET nodeString == toHexString(getNodeId(msg))
         IN IF msg.id >= INTRO_MSG_BEGIN /\ msg.id <= INTRO_MSG_END
            THEN nodeIntro(S, msg, nodeString)
            ELSE IF msg.id >= SUBMOD_INTRO_BEGIN /\ msg.id <= SUBMOD_INTRO_END
            THEN subModIntro(S, msg, nodeString)
            ELSE S

----------------------------------------------------------------------------
(* Housekeeping scheduler *)

\* Buffer of 8 bytes, bytes 4..7 = floor(Date.now() / 1000) big-endian
getTimestampPayload ==
    LET unixSeconds == now \div 1000
    IN <<0, 0, 0, 0, (unixSeconds \div 16777216) % 256, (unixSeconds \div 65536) % 256,
         (unixSeconds \div 256) % 256, unixSeconds % 256>>

sendRequestIntro(S) ==
    [writeCanMessageBE(S, REQ_NODE_INTRO_ID, myNodeId) EXCEPT !.lri = now]

\* a scheduler that fires when the interval has just elapsed
handlePeroidicMessages_Mut(S) ==
    LET S1 == IF now - S.lri >= maxReqIntro THEN sendRequestIntro(S) ELSE S
    IN IF now - S1.lts >= sendTsInterval
       THEN [writeCanMessageBE(S1, DATA_EPOCH_ID, getTimestampPayload) EXCEPT !.lts = now]
       ELSE S1

handlePeroidicMessages(S) ==
    LET S1 == IF now - S.lri > maxReqIntro THEN sendRequestIntro(S) ELSE S
    IN IF now - S1.lts > sendTsInterval
       THEN [writeCanMessageBE(S1, DATA_EPOCH_ID, getTimestampPayload) EXCEPT !.lts = now]
       ELSE S1

----------------------------------------------------------------------------
(* Config writer *)

\* 8-byte buffer: node id from the hex key, sub-module index, id BE16, dlc
\* (writeUInt16BE and writeUInt8 write 0 for a value that is no number)
dataMsgPayload(nodeId, subModIdx, dataMsgId, dataMsgDlc) ==
    hexStringToByteArray(nodeId) \o
    <<subModIdx, (ToInt(dataMsgId) \div 256) % 256, ToInt(dataMsgId) % 256,
      ToInt(dataMsgDlc)>>

\* 8-byte buffer: node id from the hex key, sub-module index, raw config
rawConfigPayload(nodeId, subModIdx, rawConfig) ==
    hexStringToByteArray(nodeId) \o <<subModIdx>> \o
    [i \in 1..3 |-> IF i <= Len(rawConfig) THEN rawConfig[i] % 256 ELSE 0]

\* targetSub.dataMsgId !== dataMsgId
idDiffers(targetSub, data) == Get(targetSub, "dataMsgId") # data.dataMsgId

\* the handler without the comparison of the two lengths
dlcDiffers_Mut(targetSub, data) == FALSE

\* targetSub.dataMsgDlc !== dataMsgDlc
dlcDiffers(targetSub, data) == Get(targetSub, "dataMsgDlc") # data.dataMsgDlc

\* the two arrays compared with !==, that is by identity
rawConfigDiffers_Mut(targetSub, data) == TRUE

\* JSON.stringify(targetSub.rawConfig) !== JSON.stringify(rawConfig)
\* (a message without rawConfig gives undefined, which differs from a string)
rawConfigDiffers(targetSub, data) ==
    IF ~Has(data, "rawConfig") THEN TRUE
    ELSE JsonArray(Get(targetSub, "rawConfig")) # JsonArray(data.rawConfig)

\* writeUInt16BE(dataMsgId) and writeUInt8(dataMsgDlc) throw a RangeError for
\* a number outside their range (and write 0 for a value that is no number)
writeThrows(data) ==
    \/ data.dataMsgId # Undef /\ (data.dataMsgId < 0 \/ data.dataMsgId > 65535)
    \/ data.dataMsgDlc # Undef /\ (data.dataMsgDlc < 0 \/ data.dataMsgDlc > BYTE_MASK)

\* step 1 of the first listing: dataMsgId / dataMsgDlc
cfgDataMsg(S, data) ==
    LET nodeId == data.nodeId
        subModIdx == data.subModIdx
        targetSub == S.db[nodeId].subModule[subModIdx]
        idDiff == idDiffers(targetSub, data)
        dlcDiff == dlcDiffers(targetSub, data)
        S1 == IF idDiff
              THEN logManualChange(S, nodeId, subModIdx, "dataMsgId",
                                   Get(targetSub, "dataMsgId"), data.dataMsgId)
              ELSE S
        S2 == IF ~S1.threw /\ dlcDiff
              THEN logManualChange(S1, nodeId, subModIdx, "dataMsgDlc",
                                   Get(targetSub, "dataMsgDlc"), data.dataMsgDlc)
              ELSE S1
        changed == Put(Put(targetSub, "dataMsgId", data.dataMsgId),
                       "dataMsgDlc", data.dataMsgDlc)
    IN IF ~(idDiff \/ dlcDiff) THEN S
       ELSE IF S2.threw THEN S2
       ELSE IF writeThrows(data) THEN Throw(S2)
       ELSE Emit([Send(S2, CFG_SUB_DATA_MSG_ID,
                       dataMsgPayload(nodeId, subModIdx, data.dataMsgId, data.dataMsgDlc))
                    EXCEPT !.db[nodeId].subModule[subModIdx] = changed],
                 <<"memory", nodeId>>)

\* step 2 of the first listing: rawConfig
cfgRawConfig(S, data) ==
    LET nodeId == data.nodeId
        subModIdx == data.subModIdx
        targetSub == S.db[nodeId].subModule[subModIdx]
        differs == rawConfigDiffers(targetSub, data)
        S1 == logManualChange(S, nodeId, subModIdx, "rawConfig",
                              JsonArray(Get(targetSub, "rawConfig")),
                              IF Has(data, "rawConfig")
                              THEN JsonArray(data.rawConfig) ELSE Null)
    IN IF ~differs THEN S
       ELSE IF S1.threw THEN S1
       \* Buffer.from(undefined) throws a TypeError
       ELSE IF ~Has(data, "rawConfig") THEN Throw(S1)
       ELSE Emit([Send(S1, CFG_SUB_RAW_DATA_ID,
                       rawConfigPayload(nodeId, subModIdx, data.rawConfig))
                    EXCEPT !.db[nodeId].subModule[subModIdx] =
                               Put(targetSub, "rawConfig", data.rawConfig)],
                 <<"memory", nodeId>>)

\* db.transaction: the writes of a transaction that threw are undone
rollback_Mut(before, after) ==
    Emit([after EXCEPT !.threw = FALSE], <<"rollback">>)

\* db.transaction: the writes of a transaction that threw are undone
rollback(before, after) ==
    Emit([after EXCEPT !.inv = before.inv, !.hist = before.hist,
                       !.threw = FALSE], <<"rollback">>)

\* step 3 of the first listing: inventory and history in one transaction
\* (the history row reads info.config_crc, which no node has), then the ACK
cfgPersist(S, data) ==
    LET nodeId == data.nodeId
        nodeData == Put(S.db[nodeId], "lastSeen", now)
        S1 == Emit([S EXCEPT !.db[nodeId] = nodeData], <<"memory", nodeId>>)
        T1 == syncNodeToDatabase(S1, nodeId, nodeData)
        T2 == IF T1.threw THEN T1
              ELSE insertHistorySnapshot(T1, nodeId, Get(nodeData, "nodeTypeMsg"),
                                         Get(nodeData, "subModCnt"),
                                         Get(nodeData, "config_crc"),
                                         nodeData.subModule)
    IN IF T2.threw
       THEN Emit(rollback(S1, T2), <<"log", "error">>)    \* caught at line 426
       ELSE Emit(T2, <<"ws", "UPDATE_ACK", nodeId, data.subModIdx>>)

\* a lookup that creates the record of a node it does not find
lookupNode_Mut(S, nodeId) ==
    IF nodeId \in DOMAIN S.db THEN S
    ELSE Emit([S EXCEPT !.db = [k \in (DOMAIN S.db) \cup {nodeId} |->
                                  IF k = nodeId THEN newNode ELSE S.db[k]]],
              <<"create", nodeId>>)

\* const nodeData = canDatabase[nodeId]: a read
lookupNode(S, nodeId) == S

\* handleNodeConfigUpdate(ws, data) of the first listing
handleNodeConfigUpdate(S, data) ==
    LET S0 == lookupNode(S, data.nodeId)
    IN IF data.nodeId \notin DOMAIN S0.db THEN Emit(S0, <<"log", "error">>)
       \* targetSub is undefined: reading targetSub.dataMsgId throws
       ELSE IF data.subModIdx \notin DOMAIN S0.db[data.nodeId].subModule
       THEN Throw(S0)
       ELSE LET targetSub == S0.db[data.nodeId].subModule[data.subModIdx]
                S1 == cfgDataMsg(S0, data)
                S2 == IF S1.threw THEN S1 ELSE cfgRawConfig(S1, data)
                hasChanged == \/ idDiffers(targetSub, data)
                              \/ dlcDiffers(targetSub, data)
                              \/ rawConfigDiffers(targetSub, data)
            IN IF S2.threw \/ ~hasChanged THEN S2 ELSE cfgPersist(S2, data)

\* handleNodeConfigUpdate(msg) of the second listing, called as
\* handleNodeConfigUpdate(ws, request): its first statement reads
\* nodeDatabase, an identifier the listing declares nowhere, which throws a
\* ReferenceError before anything else is done
handleNodeConfigUpdate2(S, data) == Throw(S)

----------------------------------------------------------------------------
(* Operator gateway: the 'message' handler of a socket *)

\* the message registry after importMessageDefinitions: arbitration id -> name
messageLookup ==
    [i \in {INTRO_MSG_BEGIN, SUBMOD_INTRO_BEGIN} |->
        IF i = INTRO_MSG_BEGIN THEN "NODE_INTRO" ELSE "SUBMOD_INTRO"]

\* the sockets of wss.clients with readyState === OPEN
OpenClients == {p \in DOMAIN clients : clients[p] = "OPEN"}

\* broadcastDatabase(): DATABASE_UPDATE with the inventory to every open socket
broadcastDatabase(S) ==
    Emit(S, <<"broadcast", "DATABASE_UPDATE", S.db, OpenClients>>)

\* selectRecentAudit.all(): the most recent rows, up to AuditLimit of them
RecentAudit(audit) ==
    SubSeq(audit, IF Len(audit) > AuditLimit THEN Len(audit) - AuditLimit + 1 ELSE 1,
           Len(audit))

\* broadcastAuditLog(): AUDIT_LOG_UPDATE to every socket of `to` that is open
broadcastAuditLog(S, to) ==
    Emit(S, <<"broadcast", "AUDIT_LOG_UPDATE", RecentAudit(S.audit), to>>)

\* the 'connection' handler of listing r for the socket of port p, which is
\* open and already among wss.clients: what it sends to that socket, and the
\* audit log to every open socket (second listing)
connection(S, p, r) ==
    LET hello == Emit(S, <<"greet", "DATABASE_UPDATE", p, S.db>>)
    IN IF r = 1 THEN hello
       ELSE broadcastAuditLog(
                Emit(Emit(S, <<"greet", "DEFINITIONS_LIST", p, messageLookup>>),
                     <<"greet", "DATABASE_UPDATE", p, S.db>>),
                OpenClients \cup {p})

\* the reset without the line that clears the sub-modules
resetNode_Mut(node) ==
    Put(Put(node, "lastSubModIdx", 0), "introComplete", FALSE)

\* resetNodeInterviewState of the specification, inlined in the handler
resetNode(node) ==
    Put(Put(Put(node, "subModule", EmptyObj), "lastSubModIdx", 0),
        "introComplete", FALSE)

\* a request that restarts the scan timer as the scheduler's frame does
requestNodeInterview_Mut(S, request) ==
    LET nodeString == request.nodeId
        S1 == IF nodeString \in DOMAIN S.db
              THEN Emit([S EXCEPT !.db[nodeString] = resetNode(S.db[nodeString])],
                        <<"memory", nodeString>>)
              ELSE S
    IN [writeCanMessageBE(broadcastDatabase(S1), REQ_NODE_INTRO_ID,
                          hexStringToByteArray(nodeString)) EXCEPT !.lri = now]

\* case 'REQUEST_NODE_INTERVIEW' (second listing)
requestNodeInterview(S, request) ==
    LET nodeString == request.nodeId
        S1 == IF nodeString \in DOMAIN S.db
              THEN Emit([S EXCEPT !.db[nodeString] = resetNode(S.db[nodeString])],
                        <<"memory", nodeString>>)
              ELSE S
    IN writeCanMessageBE(broadcastDatabase(S1), REQ_NODE_INTRO_ID,
                         hexStringToByteArray(nodeString))

\* the switch on request.type of the listing that runs
dispatch(S, request, r) ==
    IF request.type = "UPDATE_NODE_CONFIG"
    THEN IF r = 1 THEN handleNodeConfigUpdate(S, request)
                    ELSE handleNodeConfigUpdate2(S, request)
    ELSE IF request.type = "REQUEST_NODE_INTERVIEW" /\ r = 2
    THEN requestNodeInterview(S, request)
    ELSE Emit(S, <<"log", "warn">>)

\* JSON.parse(message): a message is the object its text stands for, or the
\* text itself when that is no JSON, and then JSON.parse throws
parses(message) == ~Has(message, "text")

\* try { JSON.parse; switch ... } catch (err) { console.error(...) }
wsMessage(S, message, r) ==
    LET S1 == IF parses(message) THEN dispatch(S, message, r) ELSE Throw(S)
    IN IF S1.threw THEN Emit([S1 EXCEPT !.threw = FALSE], <<"log", "error">>) ELSE S1

----------------------------------------------------------------------------
(* CAN message listener *)

\* messageLookup.get(msg.id) || 'UNKNOWN'
nameOf(id) == IF id \in DOMAIN messageLookup THEN messageLookup[id] ELSE "UNKNOWN"

\* the CAN_MESSAGE of a frame: the second listing adds the name
canMessage(msg) ==
    IF rev = 2
    THEN [type |-> "CAN_MESSAGE", id |-> msg.id, name |-> nameOf(msg.id),
          data |-> msg.data, timestamp |-> now]
    ELSE [type |-> "CAN_MESSAGE", id |-> msg.id, data |-> msg.data,
          timestamp |-> now]

\* a loop that sends to every socket of wss.clients, whatever its readyState
broadcastCan_Mut(S, msg) ==
    Emit(S, <<"broadcast", "CAN_MESSAGE", canMessage(msg), DOMAIN clients>>)

\* CAN_MESSAGE to every open socket
broadcastCan(S, msg) ==
    Emit(S, <<"broadcast", "CAN_MESSAGE", canMessage(msg), OpenClients>>)

\* a listener that runs the scheduler before the interview state machine
canListener_Mut(S, msg) ==
    LET S1 == updateNodeDatabase(handlePeroidicMessages(S), msg)
    IN IF S1.threw THEN S1 ELSE broadcastCan(S1, msg)

\* an exception of updateNodeDatabase leaves the listener
canListener(S, msg) ==
    LET S1 == updateNodeDatabase(S, msg)
    IN IF S1.threw THEN S1 ELSE broadcastCan(handlePeroidicMessages(S1), msg)

----------------------------------------------------------------------------
(* Inputs *)

StartTime == 2000000

TickSteps == {sendTsInterval + 1}

\* the node under interview, and a second node (it has the master's id)
Node1 == <<10, 188, 0, 1>>
Node2 == myNodeId

NodeIds == {Node1, Node2}

OtherMsgId == 291

\* the ports operators connect from
OperatorPort == 1
Ports == {OperatorPort, 2}

\* bytes 5..7: CRC, raw configuration, or data message id and packed byte
Tail1 == <<0, 18, 0>>
Tail2 == <<2, 16, 136>>
Tail3 == <<170, 187, 204>>

Frame(i, n, b, t) == [id |-> i, data |-> n \o <<b>> \o t]

Short(f, l) == [f EXCEPT !.data = SubSeq(@, 1, l)]

\* node-intro frames: byte 4 is the sub-module count
NodeIntroFrames ==
    {Frame(INTRO_MSG_BEGIN, Node1, 1, Tail1),
     Frame(INTRO_MSG_BEGIN, Node1, 2, Tail1),
     Frame(INTRO_MSG_BEGIN, Node1, 2, Tail2)}
    \cup {Frame(INTRO_MSG_BEGIN, Node1, 9, Tail1),
          Frame(INTRO_MSG_BEGIN, Node2, 2, Tail1),
          Short(Frame(INTRO_MSG_BEGIN, Node1, 2, Tail1), 4)}

\* sub-module intro frames: byte 4 is the tag (index, +0x80 for phase B)
SubModIntroFrames ==
    {Frame(SUBMOD_INTRO_BEGIN, Node1, b, t) : b \in {0, 128}, t \in {Tail2, Tail3}}
    \cup {Frame(SUBMOD_INTRO_BEGIN, Node1, b, Tail2) : b \in {1, 129, 9}}
    \cup {Short(Frame(SUBMOD_INTRO_BEGIN, Node1, 0, Tail2), 4)}

\* frames outside the intro ranges, and frames shorter than a node id
OtherFrames ==
    {Frame(OtherMsgId, Node1, 0, Tail1),
     Short(Frame(INTRO_MSG_BEGIN, Node1, 2, Tail1), 3)}

Frames == NodeIntroFrames \cup SubModIntroFrames \cup OtherFrames

\* the values of an UPDATE_NODE_CONFIG: data message id, dlc, raw config
OpValues == {<<528, 8, Tail2>>, <<529, 8, Tail2>>,
             <<528, 8, <<1, 2, 3>>>>, <<529, 8, <<1, 2, 3>>>>,
             <<Undef, Undef, Tail2>>}

UpdateRequest(n, i, v) ==
    [type |-> "UPDATE_NODE_CONFIG", nodeId |-> n, subModIdx |-> i,
     dataMsgId |-> v[1], dataMsgDlc |-> v[2], rawConfig |-> v[3]]

Requests ==
    {UpdateRequest(toHexString(Node1), 0, v) : v \in OpValues}
    \cup {UpdateRequest(toHexString(Node1), 1, <<529, 8, Tail2>>)}
    \cup {[type |-> "REQUEST_NODE_INTERVIEW", nodeId |-> toHexString(Node1)]}

----------------------------------------------------------------------------
(* The state machine *)

Init ==
    /\ rev \in {1, 2}
    /\ clients = EmptyObj
    /\ isAlive = EmptyObj
    /\ silent = EmptyObj
    /\ canDatabase = EmptyObj
    /\ node_inventory = EmptyObj
    /\ node_history = <<>>
    /\ audit_log = <<>>
    /\ lastReqIntro = 0
    /\ lastTsMsg = 0
    /\ now = StartTime
    /\ dbFail = {}
    /\ ev = <<"init">>
    /\ fx = <<>>
    /\ nEvents = 0

Commit(S) ==
    /\ canDatabase' = S.db
    /\ node_inventory' = S.inv
    /\ node_history' = S.hist
    /\ audit_log' = S.audit
    /\ lastReqIntro' = S.lri
    /\ lastTsMsg' = S.lts
    /\ fx' = S.fx

\* the listener of channel 'onMessage' runs on msg
Receive(msg) ==
    /\ Commit(canListener(Ctx, msg))
    /\ ev' = <<"frame", msg>>
    /\ nEvents' = nEvents + 1
    /\ UNCHANGED <<rev, clients, isAlive, silent, now, dbFail>>

\* the 'message' handler of an open socket runs on request, in listing r
Operate(request, r) ==
    /\ rev = r
    /\ OpenClients # {}
    /\ Commit(wsMessage(Ctx, request, r))
    /\ ev' = <<"ws", request>>
    /\ nEvents' = nEvents + 1
    /\ UNCHANGED <<rev, clients, isAlive, silent, now, dbFail>>

\* the socket of port p connects: the 'connection' handler runs
Connect(p) ==
    /\ p \notin DOMAIN clients
    /\ clients' = Put(clients, p, "OPEN")
    /\ isAlive' = Put(isAlive, p, TRUE)
    /\ silent' = Put(silent, p, 0)
    /\ Commit(connection(Ctx, p, rev))
    /\ ev' = <<"connection", p>>
    /\ UNCHANGED <<rev, now, dbFail>>

\* o without its property f
Drop(o, f) == [g \in (DOMAIN o) \ {f} |-> o[g]]

\* the socket of port p is closed: it leaves wss.clients
Close(p) ==
    /\ p \in DOMAIN clients
    /\ clients' = Drop(clients, p)
    /\ isAlive' = Drop(isAlive, p)
    /\ silent' = Drop(silent, p)
    /\ nEvents' = nEvents + 1
    /\ ev' = <<"close", p>>
    /\ fx' = <<>>
    /\ UNCHANGED <<rev, canDatabase, node_inventory, node_history, audit_log,
                   lastReqIntro, lastTsMsg, now, dbFail>>

\* the operator's port connects before anything else happens
OnConnection ==
    \E p \in {OperatorPort} : nEvents = 0 /\ Connect(p) /\ UNCHANGED nEvents

\* a CAN frame arrives
OnMessage ==
    \E msg \in Frames : nEvents < MaxEvents /\ Receive(msg)

\* an operator message arrives
OnWsMessage ==
    \E request \in Requests, r \in {1, 2} : nEvents < MaxEvents /\ Operate(request, r)

\* time passes between two events
Tick ==
    \E d \in TickSteps :
        /\ nEvents < MaxEvents
        /\ now' = now + d
        /\ nEvents' = nEvents + 1
        /\ ev' = <<"tick">>
        /\ fx' = <<>>
        /\ UNCHANGED <<rev, clients, isAlive, silent, canDatabase, node_inventory,
                       node_history, audit_log, lastReqIntro, lastTsMsg, dbFail>>

Next == OnConnection \/ OnMessage \/ OnWsMessage \/ Tick

Spec == Init /\ [][Next]_vars

----------------------------------------------------------------------------
(* A bus on which only Node1 speaks, with well-formed frames, and an operator
   who only asks for its re-interview: fewer inputs, longer runs. *)

MaxInterviewEvents == 6

InterviewFrames ==
    {Frame(INTRO_MSG_BEGIN, Node1, 1, Tail1),
     Frame(INTRO_MSG_BEGIN, Node1, 2, Tail1),
     Frame(INTRO_MSG_BEGIN, Node1, 2, Tail2),
     Frame(SUBMOD_INTRO_BEGIN, Node1, 0, Tail3)}
    \cup {Frame(SUBMOD_INTRO_BEGIN, Node1, b, Tail2) : b \in {0, 128, 1, 129}}

InterviewRequests ==
    {[type |-> "REQUEST_NODE_INTERVIEW", nodeId |-> toHexString(Node1)]}

OnInterviewFrame ==
    \E msg \in InterviewFrames : nEvents < MaxInterviewEvents /\ Receive(msg)

OnInterviewRequest ==
    \E request \in InterviewRequests :
        nEvents < MaxInterviewEvents /\ Operate(request, 2)

NextInterview == OnConnection \/ OnInterviewFrame \/ OnInterviewRequest

SpecInterview == Init /\ [][NextInterview]_vars

----------------------------------------------------------------------------
(* What the properties speak about *)

\* the positions of the effects of kind k in an effect log
FxAt(f, k) == {i \in 1..Len(f) : f[i][1] = k}

\* the positions of the frames sent with arbitration id `id`
SentAt(f, id) == {i \in FxAt(f, "send") : f[i][2] = id}

IsNodeIntro(msg) ==
    /\ Len(msg.data) >= NODE_ID_BYTE_LENGTH
    /\ msg.id >= INTRO_MSG_BEGIN /\ msg.id <= INTRO_MSG_END

IsSubModIntro(msg) ==
    /\ Len(msg.data) >= NODE_ID_BYTE_LENGTH
    /\ msg.id >= SUBMOD_INTRO_BEGIN /\ msg.id <= SUBMOD_INTRO_END

\* the inventory key of the node a frame names
KeyOf(msg) == toHexString(SubSeq(msg.data, 1, NODE_ID_BYTE_LENGTH))

\* both phases of sub-module i of a node are complete
Complete(node, i) ==
    /\ i \in DOMAIN node.subModule
    /\ Flag(node.subModule[i], "partAComplete")
    /\ Flag(node.subModule[i], "partBComplete")

----------------------------------------------------------------------------
(* C1: CRC-drift snapshot law.  A node-intro frame of an already-known node
   whose CRC differs from the stored configCrc inserts exactly one
   node_history row, before the in-memory node is overwritten; the row holds
   the old CRC and the sub-module map as it was before the frame; afterwards
   the node's configCrc is the incoming CRC. *)

\* byte 5 and byte 6 of the frame as a big-endian 16-bit number
FrameCrc(msg) ==
    (IF Len(msg.data) >= 6 THEN msg.data[6] * 256 ELSE 0)
    + (IF Len(msg.data) >= 7 THEN msg.data[7] ELSE 0)

CrcDrift(msg) ==
    /\ IsNodeIntro(msg)
    /\ KeyOf(msg) \in DOMAIN canDatabase
    /\ canDatabase[KeyOf(msg)].configCrc # FrameCrc(msg)

\* C1: every frame that drifts the CRC of a known node archives the old state
\* once, before the memory write, and leaves the incoming CRC stored
C1_SnapshotLaw ==
    [][\A msg \in Frames :
        (ev' = <<"frame", msg>> /\ CrcDrift(msg)) =>
            LET n == KeyOf(msg)
                old == canDatabase[n]
                row == node_history'[Len(node_history')]
            IN /\ Cardinality(FxAt(fx', "history")) = 1
               /\ Len(node_history') = Len(node_history) + 1
               /\ SubSeq(node_history', 1, Len(node_history)) = node_history
               /\ FxAt(fx', "memory") # {}
               /\ \A i \in FxAt(fx', "history"), j \in FxAt(fx', "memory") : i < j
               /\ row.node_id = n
               /\ row.config_crc = old.configCrc
               /\ row.full_data = JsonSubModule(old.subModule)
               /\ canDatabase'[n].configCrc = FrameCrc(msg)]_vars

\* a drifted CRC was archived together with a sub-module map that is not empty
C1_Witness ==
    /\ ev[1] = "frame" /\ IsNodeIntro(ev[2])
    /\ FxAt(fx, "history") # {}
    /\ LET row == node_history[Len(node_history)]
       IN /\ row.config_crc # canDatabase[KeyOf(ev[2])].configCrc
          /\ DOMAIN row.full_data # {}

----------------------------------------------------------------------------
(* C2: ACK gating.  When a node-intro frame is processed, an ACK_INTRO frame
   is sent if and only if lastSubModIdx < subModCnt-1, with the subModCnt read
   from the frame; in the other case introComplete is set, the inventory row
   is persisted and no ACK is sent. *)

\* lastSubModIdx of the node a frame names, as the handler finds it
LastIdxBefore(msg) ==
    IF KeyOf(msg) \in DOMAIN canDatabase
    THEN canDatabase[KeyOf(msg)].lastSubModIdx ELSE 0

IntroCompleteBefore(msg) ==
    IF KeyOf(msg) \in DOMAIN canDatabase
    THEN Get(canDatabase[KeyOf(msg)], "introComplete") ELSE Undef

\* byte 4 of a frame, when it has one
HasCount(msg) == Len(msg.data) > SUBMODCNT_OFFSET

Acked(f, msg) ==
    \E i \in SentAt(f, ACK_INTRO_ID) : f[i][3] = SubSeq(msg.data, 1, 4) \o <<0, 0, 0, 0>>

\* the other case of the claim: flag set, row persisted, no ACK
Concluded(msg) ==
    LET n == KeyOf(msg)
    IN /\ SentAt(fx', ACK_INTRO_ID) = {}
       /\ Flag(canDatabase'[n], "introComplete")
       /\ FxAt(fx', "inventory") # {}
       /\ n \in DOMAIN node_inventory'
       /\ node_inventory'[n].sub_mod_cnt = Bind(Get(canDatabase'[n], "subModCnt"))
       /\ node_inventory'[n].config_crc = canDatabase'[n].configCrc
       /\ node_inventory'[n].last_seen = canDatabase'[n].lastSeen
       /\ node_inventory'[n].full_data = JsonSubModule(canDatabase'[n].subModule)

\* C2 as stated: the ACK is sent iff lastSubModIdx < subModCnt-1, else the
\* interview is concluded
C2_AckIffLess ==
    [][\A msg \in Frames :
        (ev' = <<"frame", msg>> /\ IsNodeIntro(msg)) =>
            LET less == HasCount(msg) /\ LastIdxBefore(msg) < msg.data[5] - 1
            IN IF less THEN Acked(fx', msg) /\ Cardinality(SentAt(fx', ACK_INTRO_ID)) = 1
                       ELSE Concluded(msg)]_vars

(* C2, amended: the ACK is sent unless lastSubModIdx >= subModCnt-1 holds,
   which it does not when the frame has no byte 4 (subModCnt is undefined and
   both comparisons are false); for a frame that has byte 4 this is the
   stated test lastSubModIdx < subModCnt-1. *)
C2_AckUnlessDone ==
    [][\A msg \in Frames :
        (ev' = <<"frame", msg>> /\ IsNodeIntro(msg)) =>
            LET done == HasCount(msg) /\ LastIdxBefore(msg) >= msg.data[5] - 1
            IN IF done THEN Concluded(msg)
                       ELSE /\ Acked(fx', msg)
                            /\ Cardinality(SentAt(fx', ACK_INTRO_ID)) = 1
                            /\ Get(canDatabase'[KeyOf(msg)], "introComplete")
                                 = IntroCompleteBefore(msg)]_vars

\* a node-intro frame was answered by no ACK after a sub-module completed
C2_Witness ==
    /\ ev[1] = "frame" /\ IsNodeIntro(ev[2])
    /\ SentAt(fx, ACK_INTRO_ID) = {}
    /\ Flag(canDatabase[KeyOf(ev[2])], "introComplete")
    /\ canDatabase[KeyOf(ev[2])].lastSubModIdx = 1
    /\ Complete(canDatabase[KeyOf(ev[2])], 1)

----------------------------------------------------------------------------
(* C3: whenever a node-intro frame marks a node introComplete = true (and
   withholds the ACK), every expected sub-module has been interviewed: for
   every i in 0..subModCnt-1 the node holds sub-module i with both phases
   complete; also at first contact and right after an interview reset. *)
C3_CompleteMeansInterviewed ==
    [][\A msg \in Frames :
        (/\ ev' = <<"frame", msg>> /\ IsNodeIntro(msg)
         /\ SentAt(fx', ACK_INTRO_ID) = {}
         /\ Flag(canDatabase'[KeyOf(msg)], "introComplete"))
        => /\ HasCount(msg)
           /\ \A i \in 0..(msg.data[5] - 1) : Complete(canDatabase'[KeyOf(msg)], i)]_vars

\* a first node-intro frame closed the interview of a node without sub-modules
C3_Witness ==
    /\ ev[1] = "frame" /\ IsNodeIntro(ev[2])
    /\ Flag(canDatabase[KeyOf(ev[2])], "introComplete")
    /\ canDatabase[KeyOf(ev[2])].subModule = EmptyObj
    /\ canDatabase[KeyOf(ev[2])].subModCnt = 1
    /\ FxAt(fx, "create") # {}

----------------------------------------------------------------------------
(* C4: phase monotonicity.  Once partAComplete is true for sub-module
   (nodeId, idx), a further phase-A frame for it leaves the inventory
   unchanged, and likewise for phase B; also while the other phase is still
   missing. *)

\* the tag of a sub-module intro frame, when it has one
HasTag(msg) == Len(msg.data) > SUBMODID_OFFSET

TagIdx(msg) == msg.data[5] % 128

IsPhaseB(msg) == msg.data[5] >= 128

\* the phase of frame msg is already recorded for the sub-module it names
PhaseKnown(msg) ==
    /\ IsSubModIntro(msg) /\ HasTag(msg)
    /\ KeyOf(msg) \in DOMAIN canDatabase
    /\ TagIdx(msg) \in DOMAIN canDatabase[KeyOf(msg)].subModule
    /\ Flag(canDatabase[KeyOf(msg)].subModule[TagIdx(msg)],
            IF IsPhaseB(msg) THEN "partBComplete" ELSE "partAComplete")

InventoryUnchanged ==
    /\ canDatabase' = canDatabase
    /\ node_inventory' = node_inventory
    /\ node_history' = node_history

\* C4 as stated: a frame of a phase already recorded leaves the inventory
\* unchanged, one recorded phase being enough
C4_PhaseFrozen ==
    [][\A msg \in Frames :
        (ev' = <<"frame", msg>> /\ PhaseKnown(msg)) => InventoryUnchanged]_vars

(* C4, amended: once both phases of sub-module (nodeId, idx) are complete,
   every further sub-module intro frame for it, of either phase, leaves the
   inventory unchanged and is not acknowledged. *)
C4_CompleteFrozen ==
    [][\A msg \in Frames :
        (/\ ev' = <<"frame", msg>> /\ IsSubModIntro(msg) /\ HasTag(msg)
         /\ KeyOf(msg) \in DOMAIN canDatabase
         /\ Complete(canDatabase[KeyOf(msg)], TagIdx(msg)))
        => /\ InventoryUnchanged
           /\ FxAt(fx', "memory") = {}
           /\ SentAt(fx', ACK_INTRO_ID) = {}]_vars

\* a frame with other bytes arrived for a complete sub-module and changed nothing
C4_Witness ==
    /\ ev[1] = "frame" /\ IsSubModIntro(ev[2]) /\ HasTag(ev[2])
    /\ KeyOf(ev[2]) \in DOMAIN canDatabase
    /\ Complete(canDatabase[KeyOf(ev[2])], TagIdx(ev[2]))
    /\ FxAt(fx, "memory") = {}
    /\ ~IsPhaseB(ev[2])
    /\ canDatabase[KeyOf(ev[2])].subModule[TagIdx(ev[2])].rawConfig
         # SubSeq(ev[2].data, 6, 8)

----------------------------------------------------------------------------
(* C5: config writer idempotence.  An UPDATE_NODE_CONFIG whose payload equals
   the current in-memory state of the targeted sub-module sends no CAN frame,
   appends no audit row, inserts no history row, does not touch
   node_inventory, leaves the in-memory inventory (lastSeen included)
   unchanged and sends no UPDATE_ACK. *)

IsUpdate(request) == request.type = "UPDATE_NODE_CONFIG"

\* the sub-module an update names exists
Targets(request) ==
    /\ IsUpdate(request)
    /\ request.nodeId \in DOMAIN canDatabase
    /\ request.subModIdx \in DOMAIN canDatabase[request.nodeId].subModule

TargetSub(request) == canDatabase[request.nodeId].subModule[request.subModIdx]

SameDataMsg(request) ==
    /\ Get(TargetSub(request), "dataMsgId") = request.dataMsgId
    /\ Get(TargetSub(request), "dataMsgDlc") = request.dataMsgDlc

SameRawConfig(request) == TargetSub(request).rawConfig = request.rawConfig

NoEffect(f) ==
    \A k \in {"send", "audit", "history", "inventory", "memory", "ws"} : FxAt(f, k) = {}

\* C5: an update equal to the stored sub-module has no effect at all
C5_Idempotent ==
    [][\A request \in Requests :
        (/\ ev' = <<"ws", request>> /\ Targets(request)
         /\ SameDataMsg(request) /\ SameRawConfig(request))
        => /\ NoEffect(fx')
           /\ canDatabase' = canDatabase
           /\ node_inventory' = node_inventory
           /\ node_history' = node_history
           /\ audit_log' = audit_log]_vars

\* the first listing handled an update equal to an interviewed sub-module
C5_Witness ==
    /\ rev = 1 /\ ev[1] = "ws" /\ Targets(ev[2])
    /\ SameDataMsg(ev[2]) /\ SameRawConfig(ev[2])
    /\ Complete(canDatabase[ev[2].nodeId], ev[2].subModIdx)
    /\ fx = <<>>

----------------------------------------------------------------------------
(* C6: bus round-trip.  An UPDATE_NODE_CONFIG for a known node that changes
   only dataMsgId from A to B sends exactly one CAN frame, with id
   CFG_SUB_DATA_MSG_ID, bytes 0..3 the node's id, byte 4 subModIdx, bytes 5..6
   B big-endian and byte 7 dataMsgDlc; when rawConfig changes too, exactly one
   further frame with id CFG_SUB_RAW_DATA_ID and bytes 5..7 the new rawConfig:
   as many frames as changed field groups. *)

\* the id bytes of the node an inventory key names
IdBytes(n) == CHOOSE id \in NodeIds : toHexString(id) = n

\* dataMsgId changes from a number to another number, dataMsgDlc stays
ChangesId(request) ==
    /\ Targets(request)
    /\ request.dataMsgId # Undef
    /\ Get(TargetSub(request), "dataMsgId") \notin {Undef, request.dataMsgId}
    /\ Get(TargetSub(request), "dataMsgDlc") = request.dataMsgDlc

DataMsgFrame(request) ==
    <<"send", CFG_SUB_DATA_MSG_ID,
      IdBytes(request.nodeId) \o
      <<request.subModIdx, request.dataMsgId \div 256, request.dataMsgId % 256,
        request.dataMsgDlc>>>>

RawConfigFrame(request) ==
    <<"send", CFG_SUB_RAW_DATA_ID,
      IdBytes(request.nodeId) \o <<request.subModIdx>> \o request.rawConfig>>

Sent(f) == [i \in 1..Cardinality(FxAt(f, "send")) |->
               f[CHOOSE j \in FxAt(f, "send") :
                    Cardinality({k \in FxAt(f, "send") : k <= j}) = i]]

RoundTrip(request) ==
    Sent(fx') = IF SameRawConfig(request)
                THEN <<DataMsgFrame(request)>>
                ELSE <<DataMsgFrame(request), RawConfigFrame(request)>>

\* C6: an update that changes dataMsgId sends the data message frame, and the
\* raw config frame after it when rawConfig changes too, and nothing else
C6_RoundTrip ==
    [][\A request \in Requests :
        (ev' = <<"ws", request>> /\ ChangesId(request)) => RoundTrip(request)]_vars

\* C6 restricted to the first listing, whose handler sends the frames
C6_RoundTripFirstListing ==
    [][\A request \in Requests :
        (ev' = <<"ws", request>> /\ rev' = 1 /\ ChangesId(request))
        => RoundTrip(request)]_vars

\* the second listing handled an update of dataMsgId and sent nothing
C6_Witness ==
    /\ rev = 2 /\ ev[1] = "ws" /\ Targets(ev[2])
    /\ ev[2].dataMsgId # Undef
    /\ Get(TargetSub(ev[2]), "dataMsgId") \notin {Undef, ev[2].dataMsgId}
    /\ FxAt(fx, "send") = {}

----------------------------------------------------------------------------
(* C7: interview reset.  After a REQUEST_NODE_INTERVIEW for a known node n,
   n's subModule map is empty, lastSubModIdx = 0, introComplete = false, and
   exactly one REQ_NODE_INTRO frame was sent, bytes 0..3 n's id and the other
   bytes zero; the reset comes first, then the DATABASE_UPDATE broadcast of
   the cleared inventory, then the frame. *)

IsInterviewRequest(request) == request.type = "REQUEST_NODE_INTERVIEW"

\* C7: the reset of a known node, its broadcast and its one frame, in order
C7_InterviewReset ==
    [][\A request \in Requests :
        (/\ ev' = <<"ws", request>> /\ rev' = 2 /\ IsInterviewRequest(request)
         /\ request.nodeId \in DOMAIN canDatabase)
        => LET n == request.nodeId
           IN /\ canDatabase'[n].subModule = EmptyObj
              /\ canDatabase'[n].lastSubModIdx = 0
              /\ canDatabase'[n].introComplete = FALSE
              /\ fx' = << <<"memory", n>>,
                          <<"broadcast", "DATABASE_UPDATE", canDatabase',
                            OpenClients>>,
                          <<"send", REQ_NODE_INTRO_ID, IdBytes(n) \o <<0, 0, 0, 0>>>> >>]_vars

\* a node with an interviewed sub-module was reset
C7_Witness ==
    /\ rev = 2 /\ ev[1] = "ws" /\ IsInterviewRequest(ev[2])
    /\ ev[2].nodeId \in DOMAIN canDatabase
    /\ canDatabase[ev[2].nodeId].subModule = EmptyObj
    /\ ev[2].nodeId \in DOMAIN node_inventory
    /\ DOMAIN node_inventory[ev[2].nodeId].full_data # {}

----------------------------------------------------------------------------
(* C8: lastSubModIdx monotonically reflects the highest completed index:
   between two interview resets of a node it never decreases, and it equals
   the largest index whose two phases are both complete, also when
   sub-modules complete out of numerical order. *)

CompleteSet(node) == {i \in DOMAIN node.subModule : Complete(node, i)}

\* the step is the interview reset of node n
IsResetOf(n) ==
    /\ ev'[1] = "ws" /\ rev' = 2
    /\ IsInterviewRequest(ev'[2]) /\ ev'[2].nodeId = n

\* C8 as stated: lastSubModIdx does not decrease but by a reset, and no
\* complete sub-module has an index above it
C8_HighestCompleted ==
    [][\A n \in DOMAIN canDatabase' :
        /\ (n \in DOMAIN canDatabase /\ ~IsResetOf(n))
             => canDatabase'[n].lastSubModIdx >= canDatabase[n].lastSubModIdx
        /\ CompleteSet(canDatabase'[n]) # {}
             => \A i \in CompleteSet(canDatabase'[n]) :
                    i <= canDatabase'[n].lastSubModIdx]_vars

(* C8, amended: lastSubModIdx is the index of the sub-module that completed
   most recently since the node was created or last reset, and 0 when none
   has: a step that completes sub-module i stores i, a reset and the creation
   store 0, every other step leaves it alone. *)
C8_LastCompleted ==
    [][\A n \in DOMAIN canDatabase' :
        LET was == IF n \in DOMAIN canDatabase
                   THEN CompleteSet(canDatabase[n]) ELSE {}
            newly == CompleteSet(canDatabase'[n]) \ was
            last == canDatabase'[n].lastSubModIdx
        IN IF newly # {} THEN newly = {last}
           ELSE IF n \notin DOMAIN canDatabase \/ IsResetOf(n) THEN last = 0
           ELSE last = canDatabase[n].lastSubModIdx]_vars

\* sub-module 1 completed before sub-module 0 did
C8_Witness ==
    \E n \in DOMAIN canDatabase :
        /\ CompleteSet(canDatabase[n]) = {0, 1}
        /\ canDatabase[n].lastSubModIdx = 0

----------------------------------------------------------------------------
(* C9: in every reachable state and for every node of the inventory,
   0 <= |subModule| <= subModCnt <= 8, whatever byte 4 the node-intro frames
   carry and whatever indices the sub-module intro frames carry. *)
C9_CountBounds ==
    \A n \in DOMAIN canDatabase :
        LET node == canDatabase[n]
        IN Get(node, "subModCnt") # Undef
             => /\ Cardinality(DOMAIN node.subModule) <= node.subModCnt
                /\ node.subModCnt <= NODE_MAX_SUBMODS

\* a node holds more sub-modules than the count it announced
C9_Witness ==
    \E n \in DOMAIN canDatabase :
        /\ Get(canDatabase[n], "subModCnt") # Undef
        /\ Cardinality(DOMAIN canDatabase[n].subModule) > canDatabase[n].subModCnt

----------------------------------------------------------------------------
(* C10: in every reachable state a node's introComplete is true exactly when
   lastSubModIdx >= subModCnt-1: it becomes true as soon as the last expected
   sub-module completes and does not stay true after a node-intro frame
   raises subModCnt above lastSubModIdx+1. *)

Done(node) ==
    /\ Get(node, "subModCnt") # Undef
    /\ node.lastSubModIdx >= node.subModCnt - 1

\* C10 as stated: introComplete is true exactly when lastSubModIdx >= subModCnt-1
C10_FlagIffDone ==
    \A n \in DOMAIN canDatabase :
        Flag(canDatabase[n], "introComplete") <=> Done(canDatabase[n])

(* C10, amended: introComplete is a latch.  It turns true only in the
   processing of a node-intro frame of the node that finds
   lastSubModIdx >= subModCnt-1, and every such frame sets it; it turns
   false only by the interview reset of the node.  The completion of the last
   sub-module does not set it and a raised subModCnt does not clear it. *)
C10_FlagLatch ==
    [][\A n \in DOMAIN canDatabase' :
        LET before == n \in DOMAIN canDatabase /\ Flag(canDatabase[n], "introComplete")
            after == Flag(canDatabase'[n], "introComplete")
            introOfN == ev'[1] = "frame" /\ IsNodeIntro(ev'[2]) /\ KeyOf(ev'[2]) = n
        IN /\ (after /\ ~before) => (introOfN /\ Done(canDatabase'[n]))
           /\ (before /\ ~after) => IsResetOf(n)
           /\ (introOfN /\ Done(canDatabase'[n])) => after]_vars

\* a node-intro frame raised the count above lastSubModIdx+1 and the flag
\* stayed set
C10_Witness ==
    \E n \in DOMAIN canDatabase :
        /\ Flag(canDatabase[n], "introComplete")
        /\ ~Done(canDatabase[n])
        /\ ev[1] = "frame" /\ IsNodeIntro(ev[2]) /\ KeyOf(ev[2]) = n

----------------------------------------------------------------------------
(* C11: a first-contact node-intro frame and a node-intro frame whose CRC
   equals the stored one insert no node_history row: the bus causes a history
   row only when the CRC of a known node changes, and one row per change. *)

\* C11: a frame appends one node_history row when it drifts the CRC of a
\* known node, and leaves node_history as it is in every other case
C11_HistoryOnlyOnDrift ==
    [][\A msg \in Frames :
        (ev' = <<"frame", msg>>) =>
            IF CrcDrift(msg)
            THEN /\ Len(node_history') = Len(node_history) + 1
                 /\ Cardinality(FxAt(fx', "history")) = 1
            ELSE /\ node_history' = node_history
                 /\ FxAt(fx', "history") = {}]_vars

\* a known node that has one archived drift announced itself again with the
\* CRC it has, and nothing was archived
C11_Witness ==
    /\ ev[1] = "frame" /\ IsNodeIntro(ev[2])
    /\ FxAt(fx, "create") = {}
    /\ FxAt(fx, "memory") # {}
    /\ FxAt(fx, "history") = {}
    /\ Len(node_history) = 1
    /\ canDatabase[KeyOf(ev[2])].configCrc = FrameCrc(ev[2])

----------------------------------------------------------------------------
(* C12: the persistence of a configuration write is atomic and captures the
   post-write state: the inventory upsert and exactly one history insert are
   committed together or not at all, and the committed history row's
   node_type_msg, sub_mod_cnt, config_crc and full_data are the node's values
   after the update. *)

\* the node_history row a step appended last
LastRow == node_history'[Len(node_history')]

\* the inventory upsert and the history insert of a step come together
BothOrNeither ==
    /\ Cardinality(FxAt(fx', "history")) = Cardinality(FxAt(fx', "inventory"))
    /\ Cardinality(FxAt(fx', "history")) <= 1
    /\ Len(node_history') = Len(node_history) + Cardinality(FxAt(fx', "history"))
    /\ FxAt(fx', "inventory") = {} => node_inventory' = node_inventory

\* C12: an update commits the inventory row and one history row together or
\* neither, and the history row repeats the node as the update left it
C12_AtomicPostWrite ==
    [][\A request \in Requests :
        (ev' = <<"ws", request>> /\ IsUpdate(request)) =>
            /\ BothOrNeither
            /\ FxAt(fx', "history") # {} =>
                  LET node == canDatabase'[request.nodeId]
                  IN /\ LastRow.node_id = request.nodeId
                     /\ LastRow.node_type_msg = Bind(Get(node, "nodeTypeMsg"))
                     /\ LastRow.sub_mod_cnt = Bind(Get(node, "subModCnt"))
                     /\ LastRow.config_crc = Bind(Get(node, "configCrc"))
                     /\ LastRow.full_data = JsonSubModule(node.subModule)]_vars

\* the part of C12 that the first listing keeps: both rows or neither, and
\* every column of the history row but config_crc is the node's after the write
C12_AtomicFirstListing ==
    [][\A request \in Requests :
        (ev' = <<"ws", request>> /\ IsUpdate(request)) =>
            /\ BothOrNeither
            /\ FxAt(fx', "history") # {} =>
                  LET node == canDatabase'[request.nodeId]
                  IN /\ LastRow.node_id = request.nodeId
                     /\ LastRow.node_type_msg = Bind(Get(node, "nodeTypeMsg"))
                     /\ LastRow.sub_mod_cnt = Bind(Get(node, "subModCnt"))
                     /\ LastRow.config_crc = Null
                     /\ LastRow.full_data = JsonSubModule(node.subModule)
                     /\ node_inventory'[request.nodeId].full_data = LastRow.full_data]_vars

\* an update was committed whose history row has no CRC, the node having one
C12_Witness ==
    /\ rev = 1 /\ ev[1] = "ws" /\ IsUpdate(ev[2])
    /\ FxAt(fx, "history") # {} /\ FxAt(fx, "inventory") # {}
    /\ node_history[Len(node_history)].config_crc = Null
    /\ canDatabase[ev[2].nodeId].configCrc # Undef

----------------------------------------------------------------------------
(* C13: for every UPDATE_NODE_CONFIG applied to a known node, the number of
   audit rows appended equals the number of fields actually changed
   (dataMsgId, dataMsgDlc, rawConfig), each row with the old and the new
   value. *)

AuditedFields == {"dataMsgId", "dataMsgDlc", "rawConfig"}

\* field f of the sub-module an update names, in inventory db
FieldOf(db, request, f) ==
    IF request.subModIdx \in DOMAIN db[request.nodeId].subModule
    THEN Get(db[request.nodeId].subModule[request.subModIdx], f)
    ELSE Undef

\* the value of a field as the audit row holds it
AuditValue(f, v) == IF f = "rawConfig" THEN JsonArray(v) ELSE v

\* the fields of the named sub-module that a step changed
ChangedFields(request) ==
    {f \in AuditedFields :
        FieldOf(canDatabase, request, f) # FieldOf(canDatabase', request, f)}

\* the positions of the audit rows a step appended
NewAudit == (Len(audit_log) + 1)..Len(audit_log')

----------------------------------------------------------------------------
(* C14: UnknownNodeOnUpdate.  An UPDATE_NODE_CONFIG that names a node the
   inventory does not hold has no effect at all: no node is created, nothing
   is changed, persisted, sent or acknowledged. *)

\* C14: an update of an unknown node leaves memory and tables as they are,
\* creates no node and sends nothing
C14_UnknownNodeNoEffect ==
    [][\A request \in Requests :
        (/\ ev' = <<"ws", request>> /\ IsUpdate(request)
         /\ request.nodeId \notin DOMAIN canDatabase) =>
            /\ NoEffect(fx')
            /\ FxAt(fx', "create") = {} /\ FxAt(fx', "broadcast") = {}
            /\ canDatabase' = canDatabase
            /\ node_inventory' = node_inventory
            /\ node_history' = node_history
            /\ audit_log' = audit_log]_vars

\* an update named a node that is not in the inventory, which holds another
C14_Witness ==
    /\ ev[1] = "ws" /\ IsUpdate(ev[2])
    /\ ev[2].nodeId \notin DOMAIN canDatabase
    /\ canDatabase # EmptyObj
    /\ fx = << <<"log", "error">> >>

----------------------------------------------------------------------------
(* A database whose statements can fail: one node with one sub-module on the
   bus, an operator who edits that sub-module, and prepared statements that
   start and stop throwing. *)

MaxFaultEvents == 6

FaultFrames ==
    {Frame(INTRO_MSG_BEGIN, Node1, 2, Tail1),
     Frame(INTRO_MSG_BEGIN, Node1, 1, Tail1),
     Frame(SUBMOD_INTRO_BEGIN, Node1, 0, Tail2),
     Frame(SUBMOD_INTRO_BEGIN, Node1, 128, Tail2)}

FaultRequests ==
    {UpdateRequest(toHexString(Node1), 0, v) :
        v \in {<<528, 8, <<1, 2, 3>>>>, <<529, 8, Tail2>>, <<529, 4, <<1, 2, 3>>>>}}

\* the sets of statements that throw together
Faults == {{}, {"insertInventory"}, {"insertHistorySnapshot"}, {"insertAudit"}}

OnFaultFrame ==
    \E msg \in FaultFrames : nEvents < MaxFaultEvents /\ Receive(msg)

OnFaultRequest ==
    \E request \in FaultRequests, r \in {1, 2} :
        nEvents < MaxFaultEvents /\ Operate(request, r)

\* run() of some statements starts or stops throwing
Break ==
    \E f \in Faults \ {dbFail} :
        /\ nEvents < MaxFaultEvents
        /\ dbFail' = f
        /\ nEvents' = nEvents + 1
        /\ ev' = <<"fault">>
        /\ fx' = <<>>
        /\ UNCHANGED <<rev, clients, isAlive, silent, canDatabase, node_inventory,
                       node_history, audit_log, lastReqIntro, lastTsMsg, now>>

NextFault == OnConnection \/ OnFaultFrame \/ OnFaultRequest \/ Break

SpecFault == Init /\ [][NextFault]_vars

----------------------------------------------------------------------------
(* C15: PersistenceFailure during a config update.  If the inventory+history
   transaction fails, the in-memory node keeps the values of the update, no
   UPDATE_ACK is sent to the operator, and neither node_inventory nor
   node_history gains or changes a row. *)

\* the transaction of the step threw and was rolled back
TransactionFailed == FxAt(fx', "rollback") # {}

\* C15: an update whose transaction fails leaves the update in memory, sends
\* no UPDATE_ACK, logs the error, and leaves both tables as they were
C15_PersistenceFailure ==
    [][\A request \in FaultRequests :
        (ev' = <<"ws", request>> /\ TransactionFailed) =>
            /\ \A f \in AuditedFields :
                  FieldOf(canDatabase', request, f) = request[f]
            /\ ChangedFields(request) # {}
            /\ FxAt(fx', "ws") = {}
            /\ FxAt(fx', "log") # {}
            /\ FxAt(fx', "inventory") # {} => dbFail = {"insertHistorySnapshot"}
            /\ node_inventory' = node_inventory
            /\ node_history' = node_history]_vars

\* the history insert of an update threw after its inventory upsert had run:
\* the update is in memory and the inventory row is the one of before
C15_Witness ==
    /\ ev[1] = "ws" /\ Targets(ev[2])
    /\ dbFail = {"insertHistorySnapshot"}
    /\ FxAt(fx, "rollback") # {} /\ FxAt(fx, "inventory") # {}
    /\ TargetSub(ev[2]).dataMsgId = ev[2].dataMsgId
    /\ node_history = <<>>
    /\ ev[2].nodeId \notin DOMAIN node_inventory

----------------------------------------------------------------------------
(* C16: for every state mutation the steps occur in the order in-memory
   change, then (for operator edits) audit insertion, then the persistence
   transaction (inventory + history), then ACK/broadcast; no audit row and no
   outbound acknowledgement precedes the in-memory change it reports. *)

\* some effect of kind k comes before position i of effect log f
Before(f, k, i) == \E j \in FxAt(f, k) : j < i

\* every effect of kind k comes before every effect of kind l in f
AllBefore(f, k, l) == \A i \in FxAt(f, k), j \in FxAt(f, l) : i < j

\* C16: every audit row and every UPDATE_ACK of a step comes after an
\* in-memory change of that step, and the UPDATE_ACK after the transaction
C16_MemoryFirst ==
    [][\A i \in 1..Len(fx') :
        /\ fx'[i][1] = "audit" => Before(fx', "memory", i)
        /\ fx'[i][1] = "ws" => /\ Before(fx', "memory", i)
                               /\ Before(fx', "inventory", i)
                               /\ Before(fx', "history", i)]_vars

\* the order the handlers keep: an audit row is inserted before the change it
\* reports is made in memory; the transaction follows every in-memory change
\* and every audit row; UPDATE_ACK is the last effect; ACK_INTRO follows the
\* in-memory change and the inventory upsert of its frame
C16_OrderKept ==
    [][/\ \A i \in FxAt(fx', "audit") : \E j \in FxAt(fx', "memory") : i < j
       /\ ev'[1] = "ws" =>
             /\ AllBefore(fx', "memory", "inventory")
             /\ AllBefore(fx', "audit", "inventory")
             /\ AllBefore(fx', "inventory", "history")
             /\ \A i \in FxAt(fx', "ws") : i = Len(fx') /\ Before(fx', "history", i)
       /\ ev'[1] = "frame" =>
             /\ \A i \in SentAt(fx', ACK_INTRO_ID) :
                   \A j \in FxAt(fx', "memory") \cup FxAt(fx', "inventory") : j < i
             /\ FxAt(fx', "create") # {} => AllBefore(fx', "create", "memory")]_vars

\* an update was acknowledged whose first effect was its audit row
C16_Witness ==
    /\ rev = 1 /\ ev[1] = "ws" /\ Targets(ev[2])
    /\ fx[1][1] = "audit"
    /\ FxAt(fx, "memory") # {}
    /\ fx[Len(fx)][1] = "ws"

----------------------------------------------------------------------------
(* C17: frames are processed one at a time in arrival order, and everything
   a frame causes on the bus (its ACK_INTRO, then a due REQ_NODE_INTRO, then a
   due DATA_EPOCH frame) is sent before processing of the next inbound frame
   begins, so the outbound sequence is the concatenation, in arrival order, of
   each frame's own sends. *)

AckFrame(msg) == <<"send", ACK_INTRO_ID, PackBE8(getNodeId(msg))>>

ReqIntroFrame == <<"send", REQ_NODE_INTRO_ID, PackBE8(myNodeId)>>

EpochFrame == <<"send", DATA_EPOCH_ID, PackBE8(getTimestampPayload)>>

IntroDue == now - lastReqIntro > maxReqIntro

EpochDue == now - lastTsMsg > sendTsInterval

\* C17: the frames sent by the handling of one inbound frame are its
\* ACK_INTRO if it has one, then REQ_NODE_INTRO if due, then DATA_EPOCH if
\* due, all of them within the step of that frame and before its CAN_MESSAGE
C17_SendsPerFrame ==
    [][\A msg \in Frames :
        (ev' = <<"frame", msg>>) =>
            /\ Sent(fx') = (IF SentAt(fx', ACK_INTRO_ID) # {}
                            THEN <<AckFrame(msg)>> ELSE <<>>)
                           \o (IF IntroDue THEN <<ReqIntroFrame>> ELSE <<>>)
                           \o (IF EpochDue THEN <<EpochFrame>> ELSE <<>>)
            /\ \A i \in FxAt(fx', "memory") \cup FxAt(fx', "inventory") :
                  \A j \in SentAt(fx', REQ_NODE_INTRO_ID)
                           \cup SentAt(fx', DATA_EPOCH_ID) : i < j
            /\ fx'[Len(fx')][1] = "broadcast"
            /\ Cardinality(FxAt(fx', "broadcast")) = 1]_vars

\* a frame was answered with the three frames, in that order
C17_Witness ==
    /\ ev[1] = "frame"
    /\ Len(Sent(fx)) = 3
    /\ Sent(fx)[1][2] = ACK_INTRO_ID
    /\ Sent(fx)[2][2] = REQ_NODE_INTRO_ID
    /\ Sent(fx)[3][2] = DATA_EPOCH_ID

----------------------------------------------------------------------------
(* A quiet bus watched over a long time: two frames, an operator who asks for
   the interview of the node that has the master's id, and a clock that moves
   by one epoch interval, by a little more, or by more than the scan
   interval. *)

MaxHousekeepingEvents == 6

HousekeepingFrames ==
    {Frame(INTRO_MSG_BEGIN, Node1, 2, Tail1), Frame(OtherMsgId, Node1, 0, Tail1)}

HousekeepingRequests ==
    {[type |-> "REQUEST_NODE_INTERVIEW", nodeId |-> toHexString(myNodeId)]}

HousekeepingSteps == {sendTsInterval, sendTsInterval + 1, maxReqIntro + 1}

OnHousekeepingFrame ==
    \E msg \in HousekeepingFrames :
        nEvents < MaxHousekeepingEvents /\ Receive(msg)

OnHousekeepingRequest ==
    \E request \in HousekeepingRequests, r \in {1, 2} :
        nEvents < MaxHousekeepingEvents /\ Operate(request, r)

\* time passes between two events
Wait ==
    \E d \in HousekeepingSteps :
        /\ nEvents < MaxHousekeepingEvents
        /\ now' = now + d
        /\ nEvents' = nEvents + 1
        /\ ev' = <<"tick">>
        /\ fx' = <<>>
        /\ UNCHANGED <<rev, clients, isAlive, silent, canDatabase, node_inventory,
                       node_history, audit_log, lastReqIntro, lastTsMsg, dbFail>>

NextHousekeeping ==
    OnConnection \/ OnHousekeepingFrame \/ OnHousekeepingRequest \/ Wait

SpecHousekeeping == Init /\ [][NextHousekeeping]_vars

----------------------------------------------------------------------------
(* C18: housekeeping timers.  After an inbound frame processed at time now, a
   REQ_NODE_INTRO frame with payload = master NodeId is sent and lastReqIntro
   set to now iff now - lastReqIntro > maxReqIntro, and a DATA_EPOCH frame is
   sent and lastTsMsg set to now iff now - lastTsMsg > sendTsInterval;
   otherwise the timer variable is unchanged.  Hence two consecutive scheduled
   REQ_NODE_INTRO frames are more than maxReqIntro apart, two consecutive
   epoch frames more than sendTsInterval apart, and no housekeeping frame is
   sent while no inbound frame arrives. *)

\* the positions of the REQ_NODE_INTRO frames of the scheduler in a log
ScheduledIntroAt(f) ==
    {i \in SentAt(f, REQ_NODE_INTRO_ID) : f[i] = ReqIntroFrame}

\* C18: a frame step sends each housekeeping frame and restarts its timer
\* exactly when the timer has run out; the timers hold the time of the last
\* scheduled frame, so consecutive ones are more than the interval apart; a
\* step that is not a frame step sends no epoch frame and restarts no timer
C18_HousekeepingTimers ==
    [][/\ \A msg \in HousekeepingFrames :
            (ev' = <<"frame", msg>>) =>
               /\ IF IntroDue
                  THEN /\ Cardinality(SentAt(fx', REQ_NODE_INTRO_ID)) = 1
                       /\ ScheduledIntroAt(fx') = SentAt(fx', REQ_NODE_INTRO_ID)
                       /\ lastReqIntro' = now
                       /\ lastReqIntro' - lastReqIntro > maxReqIntro
                  ELSE /\ SentAt(fx', REQ_NODE_INTRO_ID) = {}
                       /\ lastReqIntro' = lastReqIntro
               /\ IF EpochDue
                  THEN /\ Cardinality(SentAt(fx', DATA_EPOCH_ID)) = 1
                       /\ \A i \in SentAt(fx', DATA_EPOCH_ID) : fx'[i] = EpochFrame
                       /\ lastTsMsg' = now
                       /\ lastTsMsg' - lastTsMsg > sendTsInterval
                  ELSE /\ SentAt(fx', DATA_EPOCH_ID) = {}
                       /\ lastTsMsg' = lastTsMsg
       /\ ev'[1] # "frame" =>
               /\ lastReqIntro' = lastReqIntro
               /\ lastTsMsg' = lastTsMsg
               /\ SentAt(fx', DATA_EPOCH_ID) = {}
               /\ SentAt(fx', REQ_NODE_INTRO_ID) # {} => ev'[1] = "ws"]_vars

\* the scan was requested a second time, more than maxReqIntro after the
\* first, and the epoch sent with it
C18_Witness ==
    /\ ev[1] = "frame"
    /\ ScheduledIntroAt(fx) # {}
    /\ lastReqIntro = now /\ now > StartTime + maxReqIntro
    /\ SentAt(fx, DATA_EPOCH_ID) # {}
    /\ lastTsMsg = now

----------------------------------------------------------------------------
(* Operator ports that come and go while frames arrive: two ports, a node
   that announces itself and its sub-module, frames the interview state
   machine has no use for, and an operator who edits and re-interviews. *)

MaxGatewayEvents == 5

GatewayFrames ==
    {Frame(INTRO_MSG_BEGIN, Node1, 1, Tail1),
     Frame(INTRO_MSG_BEGIN, Node1, 1, Tail2),
     Frame(SUBMOD_INTRO_BEGIN, Node1, 0, Tail2),
     Frame(SUBMOD_INTRO_BEGIN, Node1, 128, Tail2),
     Frame(SUBMOD_INTRO_BEGIN, Node1, 9, Tail2),
     Frame(OtherMsgId, Node1, 0, Tail1),
     Short(Frame(INTRO_MSG_BEGIN, Node1, 2, Tail1), 3)}

GatewayRequests ==
    {UpdateRequest(toHexString(Node1), 0, <<529, 8, Tail2>>),
     [type |-> "REQUEST_NODE_INTERVIEW", nodeId |-> toHexString(Node1)]}

OnGatewayConnection ==
    \E p \in Ports :
        nEvents < MaxGatewayEvents /\ Connect(p) /\ nEvents' = nEvents + 1

\* the socket of port p starts its closing handshake: it stays among
\* wss.clients, its readyState is no longer OPEN
OnClosing ==
    \E p \in OpenClients :
        /\ nEvents < MaxGatewayEvents
        /\ clients' = Put(clients, p, "CLOSING")
        /\ nEvents' = nEvents + 1
        /\ ev' = <<"closing", p>>
        /\ fx' = <<>>
        /\ UNCHANGED <<rev, isAlive, silent, canDatabase, node_inventory, node_history, audit_log,
                       lastReqIntro, lastTsMsg, now, dbFail>>

\* the socket of port p is closed: it leaves wss.clients
OnClose ==
    \E p \in DOMAIN clients : nEvents < MaxGatewayEvents /\ Close(p)

OnGatewayFrame ==
    \E msg \in GatewayFrames : nEvents < MaxGatewayEvents /\ Receive(msg)

OnGatewayRequest ==
    \E request \in GatewayRequests, r \in {1, 2} :
        nEvents < MaxGatewayEvents /\ Operate(request, r)

NextGateway ==
    OnGatewayConnection \/ OnClosing \/ OnClose \/ OnGatewayFrame \/ OnGatewayRequest

SpecGateway == Init /\ [][NextGateway]_vars

----------------------------------------------------------------------------
(* C19: every received CAN frame is forwarded as exactly one CAN_MESSAGE to
   each operator port that is open at that moment, and to no closed port: this
   covers frames with payload shorter than 4 bytes, frames outside the intro
   ranges and frames that the interview state machine drops; the name is the
   registry name of the ID or "UNKNOWN". *)

\* the name the registry gives to the id of a frame
RegistryName(msg) ==
    IF msg.id \in DOMAIN messageLookup THEN messageLookup[msg.id] ELSE "UNKNOWN"

\* the step of a frame has one broadcast, its last effect: a CAN_MESSAGE of
\* that frame to the ports that are open, and to no other
ForwardedOnce(msg) ==
    /\ Cardinality(FxAt(fx', "broadcast")) = 1
    /\ LET b == fx'[Len(fx')]
       IN /\ b[1] = "broadcast" /\ b[2] = "CAN_MESSAGE"
          /\ b[3].type = "CAN_MESSAGE"
          /\ b[3].id = msg.id /\ b[3].data = msg.data /\ b[3].timestamp = now
          /\ b[4] = {p \in DOMAIN clients : clients[p] = "OPEN"}
          /\ b[4] = {p \in DOMAIN clients' : clients'[p] = "OPEN"}

\* the CAN_MESSAGE of the step carries the registry name of the id
Named(msg) ==
    LET b == fx'[Len(fx')]
    IN "name" \in DOMAIN b[3] /\ b[3].name = RegistryName(msg)

----------------------------------------------------------------------------
(* C20: a DATABASE_UPDATE carrying the inventory is sent to operators after
   every persistence write that follows an inventory mutation: after a
   node-intro that persists the node, after a sub-module completes both
   phases, after a CRC-drift snapshot, and after a changed UPDATE_NODE_CONFIG,
   as well as on connect and after an interview reset. *)

\* the positions of the DATABASE_UPDATE broadcasts of an effect log
DatabaseUpdateAt(f) == {i \in FxAt(f, "broadcast") : f[i][2] = "DATABASE_UPDATE"}

\* the positions at which an effect log writes a table of the inventory
PersistedAt(f) == FxAt(f, "inventory") \cup FxAt(f, "history")

\* the step sent the inventory it leaves to every open port, after its writes
InventoryPublished ==
    \E i \in DatabaseUpdateAt(fx') :
        /\ fx'[i][3] = canDatabase'
        /\ fx'[i][4] = OpenClients
        /\ \A j \in PersistedAt(fx') : j < i

\* the connecting port was sent the inventory
InventoryGreeted(p) ==
    \E i \in FxAt(fx', "greet") :
        fx'[i] = <<"greet", "DATABASE_UPDATE", p, canDatabase'>>

\* C20: every step that writes the inventory tables publishes the inventory
\* afterwards, a connection is sent it, and an interview reset publishes it
C20_PublishedAfterPersist ==
    [][/\ PersistedAt(fx') # {} => InventoryPublished
       /\ \A p \in Ports : ev' = <<"connection", p>> => InventoryGreeted(p)
       /\ \A request \in GatewayRequests :
             (ev' = <<"ws", request>> /\ IsInterviewRequest(request) /\ rev = 2)
                => InventoryPublished]_vars

\* what the gateway does: the inventory is sent to a port when it connects
\* and to the open ports on REQUEST_NODE_INTERVIEW (second listing), and in
\* no other step, whatever the step persisted
C20_OnConnectAndReset ==
    [][/\ \A p \in Ports : ev' = <<"connection", p>> => InventoryGreeted(p)
       /\ \A request \in GatewayRequests :
             (ev' = <<"ws", request>> /\ IsInterviewRequest(request) /\ rev = 2)
                => InventoryPublished
       /\ DatabaseUpdateAt(fx') # {} =>
             /\ ev'[1] = "ws" /\ IsInterviewRequest(ev'[2]) /\ rev = 2
             /\ PersistedAt(fx') = {}
       /\ FxAt(fx', "greet") # {} => ev'[1] = "connection"]_vars

\* a sub-module completed both phases and its node was persisted while a
\* port was open, and no DATABASE_UPDATE was sent
C20_Witness ==
    /\ ev[1] = "frame" /\ IsSubModIntro(ev[2])
    /\ OpenClients # {}
    /\ FxAt(fx, "inventory") # {}
    /\ Complete(canDatabase[KeyOf(ev[2])], 0)
    /\ DatabaseUpdateAt(fx) = {}

----------------------------------------------------------------------------
(* Port liveness: the heartbeat interval and the 'pong' handler *)

\* ws.isAlive === false
expired_Mut(alive, p) == TRUE

\* ws.isAlive === false
expired(alive, p) == alive[p] = FALSE

\* wss.clients.forEach of the heartbeat, port by port: what it does to the
\* sockets in ps, after the effects in done
RECURSIVE forEachClient(_, _)
forEachClient(ps, done) ==
    IF ps = {} THEN done
    ELSE LET p == CHOOSE q \in ps : \A r \in ps : q <= r
         IN forEachClient(ps \ {p},
                Append(done, IF expired(isAlive, p) THEN <<"terminate", p>>
                                                      ELSE <<"ping", p>>))

\* the ports the heartbeat terminates
Terminated(f) == {f[i][2] : i \in {j \in 1..Len(f) : f[j][1] = "terminate"}}

\* the ports the heartbeat probes
Pinged(f) == {f[i][2] : i \in {j \in 1..Len(f) : f[j][1] = "ping"}}

\* the callback of setInterval runs: a socket that is not alive is terminated
\* (it closes without handshake, and leaves wss.clients when it is closed),
\* every other is marked and probed
Heartbeat ==
    LET done == forEachClient(DOMAIN clients, <<>>)
    IN /\ fx' = done
       /\ clients' = [p \in DOMAIN clients |->
                        IF p \in Terminated(done) THEN "CLOSING" ELSE clients[p]]
       /\ isAlive' = [p \in DOMAIN clients |-> FALSE]
       /\ silent' = [p \in DOMAIN clients |-> silent[p] + 1]
       /\ now' = now + HEARTBEAT_INTERVAL
       /\ ev' = <<"heartbeat">>
       /\ nEvents' = nEvents + 1
       /\ UNCHANGED <<rev, canDatabase, node_inventory, node_history, audit_log,
                      lastReqIntro, lastTsMsg, dbFail>>

\* the 'pong' handler of the socket of port p runs: the port answered the
\* probe that is outstanding
Pong(p) ==
    /\ p \in OpenClients
    /\ isAlive[p] = FALSE
    /\ isAlive' = Put(isAlive, p, TRUE)
    /\ silent' = Put(silent, p, 0)
    /\ ev' = <<"pong", p>>
    /\ fx' = <<>>
    /\ nEvents' = nEvents + 1
    /\ UNCHANGED <<rev, clients, canDatabase, node_inventory, node_history,
                   audit_log, lastReqIntro, lastTsMsg, now, dbFail>>

----------------------------------------------------------------------------
(* Ports that connect, answer or keep silent, and are closed, under the
   heartbeat; a node announces itself meanwhile and an operator names a node
   that is not there. *)

MaxLivenessEvents == 6

LivenessFrames ==
    {Frame(INTRO_MSG_BEGIN, Node1, 2, Tail1),
     Short(Frame(INTRO_MSG_BEGIN, Node1, 2, Tail1), 3),
     Frame(SUBMOD_INTRO_BEGIN, Node2, 0, Tail2)}

LivenessRequests ==
    {UpdateRequest(toHexString(Node2), 0, <<529, 8, Tail2>>),
     [type |-> "REQUEST_NODE_INTERVIEW", nodeId |-> toHexString(Node2)],
     [type |-> "REQUEST_NODE_INTERVIEW", nodeId |-> toHexString(Node1)]}

OnLivenessConnection ==
    \E p \in Ports :
        nEvents < MaxLivenessEvents /\ Connect(p) /\ nEvents' = nEvents + 1

OnHeartbeat == nEvents < MaxLivenessEvents /\ Heartbeat

OnPong == \E p \in Ports : nEvents < MaxLivenessEvents /\ Pong(p)

OnLivenessClose ==
    \E p \in DOMAIN clients : nEvents < MaxLivenessEvents /\ Close(p)

OnLivenessFrame ==
    \E msg \in LivenessFrames : nEvents < MaxLivenessEvents /\ Receive(msg)

OnLivenessRequest ==
    \E request \in LivenessRequests, r \in {1, 2} :
        nEvents < MaxLivenessEvents /\ Operate(request, r)

NextLiveness ==
    \/ OnLivenessConnection \/ OnHeartbeat \/ OnPong \/ OnLivenessClose
    \/ OnLivenessFrame \/ OnLivenessRequest

SpecLiveness == Init /\ [][NextLiveness]_vars

----------------------------------------------------------------------------
(* C21: operator port liveness.  At each heartbeat tick a port is terminated
   iff it has not answered (pong) the probe sent at the previous tick;
   otherwise it is marked unanswered and probed again.  A port that answers
   every probe before the next tick is never terminated, a newly connected
   port is not terminated at its first tick, and a port that stops answering
   is terminated at the second tick after its last answer at the latest. *)

\* C21: a heartbeat tick terminates the ports that have let a tick pass since
\* they connected or answered, and marks and probes the others; so a port
\* that is still open has let at most one tick pass
C21_PortLiveness ==
    [][/\ ev'[1] = "heartbeat" =>
             \A p \in DOMAIN clients :
                IF silent[p] >= 1
                THEN /\ p \in Terminated(fx') /\ p \notin Pinged(fx')
                     /\ clients'[p] = "CLOSING"
                ELSE /\ p \in Pinged(fx') /\ p \notin Terminated(fx')
                     /\ clients'[p] = clients[p]
                     /\ isAlive'[p] = FALSE
       /\ ev'[1] # "heartbeat" => FxAt(fx', "terminate") = {}
       /\ \A p \in DOMAIN clients' : clients'[p] = "OPEN" => silent'[p] <= 1]_vars

\* one tick terminated a port that kept silent and probed again a port that
\* had answered the probe of the tick before
C21_Witness ==
    /\ ev[1] = "heartbeat"
    /\ \E p, q \in DOMAIN clients :
          /\ p \in Terminated(fx) /\ clients[p] = "CLOSING" /\ silent[p] = 2
          /\ q \in Pinged(fx) /\ clients[q] = "OPEN" /\ silent[q] = 1

----------------------------------------------------------------------------
(* A bus that also carries the frames the interview drops: frames shorter
   than a node id, sub-module frames of a node that never announced itself,
   sub-module frames with an index past the last one, and frames received
   again. *)

MaxDroppedEvents == 5

\* frames the interview takes: Node1 announces itself and introduces its
\* sub-module 0 in two phases, twice with different bytes
TakenFrames ==
    {Frame(INTRO_MSG_BEGIN, Node1, 2, Tail1)}
    \cup {Frame(SUBMOD_INTRO_BEGIN, Node1, b, t) : b \in {0, 128}, t \in {Tail2, Tail3}}

ShortFrames ==
    {Short(Frame(INTRO_MSG_BEGIN, Node1, 2, Tail1), 3),
     Short(Frame(INTRO_MSG_BEGIN, Node1, 2, Tail1), 0),
     Short(Frame(SUBMOD_INTRO_BEGIN, Node1, 0, Tail2), 3),
     Short(Frame(OtherMsgId, Node1, 0, Tail1), 0)}

OrphanFrames ==
    {Frame(SUBMOD_INTRO_BEGIN, Node2, b, Tail2) : b \in {0, 128}}

PastLastFrames ==
    {Frame(SUBMOD_INTRO_BEGIN, Node1, b, Tail2) : b \in {8, 127, 136, 255}}

\* with frames of other message ids, next to the two intro ranges and far
\* from them
MixedFrames ==
    TakenFrames \cup ShortFrames \cup OrphanFrames \cup PastLastFrames
    \cup {Frame(i, Node1, 0, Tail2) :
             i \in {SUBMOD_INTRO_BEGIN - 1, INTRO_MSG_END + 1, OtherMsgId}}

OnDroppedFrame ==
    \E msg \in MixedFrames : nEvents < MaxDroppedEvents /\ Receive(msg)

\* time passes between two frames
Elapse ==
    \E d \in TickSteps :
        /\ nEvents < MaxDroppedEvents
        /\ now' = now + d
        /\ nEvents' = nEvents + 1
        /\ ev' = <<"tick">>
        /\ fx' = <<>>
        /\ UNCHANGED <<rev, clients, isAlive, silent, canDatabase, node_inventory,
                       node_history, audit_log, lastReqIntro, lastTsMsg, dbFail>>

NextDropped == OnConnection \/ OnDroppedFrame \/ Elapse

SpecDropped == Init /\ [][NextDropped]_vars

\* a step that leaves the inventory and the tables as they are, and neither
\* writes to them nor acknowledges
Untouched ==
    /\ canDatabase' = canDatabase
    /\ node_inventory' = node_inventory
    /\ node_history' = node_history
    /\ audit_log' = audit_log
    /\ FxAt(fx', "create") = {} /\ FxAt(fx', "memory") = {}
    /\ FxAt(fx', "inventory") = {} /\ FxAt(fx', "history") = {}
    /\ FxAt(fx', "audit") = {}
    /\ SentAt(fx', ACK_INTRO_ID) = {}

----------------------------------------------------------------------------
(* C22: a frame with a payload shorter than 4 bytes is dropped by the
   interview state machine whatever its ID: the inventory and the tables are
   unchanged, no node is created under the master's NodeId, and no ACK_INTRO
   is sent. *)

\* C22: the step of a frame of fewer than 4 bytes leaves inventory and tables
\* unchanged, adds no node under the master's id and sends no ACK_INTRO
C22_ShortFrameDropped ==
    [][\A msg \in MixedFrames :
        (ev' = <<"frame", msg>> /\ Len(msg.data) < NODE_ID_BYTE_LENGTH) =>
            /\ Untouched
            /\ (toHexString(myNodeId) \in DOMAIN canDatabase'
                    => toHexString(myNodeId) \in DOMAIN canDatabase)]_vars

\* a frame of three bytes with a node-intro id was handled while the
\* inventory held Node1 and not the master's id
C22_Witness ==
    /\ ev = <<"frame", Short(Frame(INTRO_MSG_BEGIN, Node1, 2, Tail1), 3)>>
    /\ DOMAIN canDatabase = {toHexString(Node1)}
    /\ FxAt(fx, "broadcast") # {}

----------------------------------------------------------------------------
(* C23: a sub-module intro frame (0x700..0x77F) whose NodeId is not in the
   inventory is dropped: no node and no sub-module is created, nothing is
   persisted and no ACK is sent; nodes are created only by node-intro
   frames. *)

\* C23: the step of a sub-module intro frame of a node that is not in the
\* inventory leaves inventory and tables unchanged and sends no ACK_INTRO,
\* and a step that adds a node to the inventory is the step of a node-intro
\* frame naming it
C23_OrphanDropped ==
    [][/\ \A msg \in MixedFrames :
            (/\ ev' = <<"frame", msg>> /\ IsSubModIntro(msg)
             /\ KeyOf(msg) \notin DOMAIN canDatabase) => Untouched
       /\ \A k \in (DOMAIN canDatabase') \ (DOMAIN canDatabase) :
            /\ ev'[1] = "frame" /\ IsNodeIntro(ev'[2]) /\ KeyOf(ev'[2]) = k
            /\ k \in {fx'[i][2] : i \in FxAt(fx', "create")}]_vars

\* a sub-module intro frame of Node2 was handled while the inventory held
\* Node1 only
C23_Witness ==
    /\ ev = <<"frame", Frame(SUBMOD_INTRO_BEGIN, Node2, 128, Tail2)>>
    /\ DOMAIN canDatabase = {toHexString(Node1)}
    /\ Complete(canDatabase[toHexString(Node1)], 0)
    /\ FxAt(fx, "broadcast") # {}

----------------------------------------------------------------------------
(* C24: a sub-module intro frame whose index (tag & 0x7F) is 8 or more is
   dropped, in both phases (tags 0x08..0x7F and 0x88..0xFF): no sub-module is
   created or changed, lastSubModIdx is unchanged, nothing is persisted and
   no ACK is sent. *)

\* the tag of a sub-module intro frame, and the index it carries
TagOf(msg) == At(msg.data, SUBMODID_OFFSET)
IndexOf(msg) == ToInt(TagOf(msg)) % SUBMOD_PARTB_OFFSET

\* C24: the step of a sub-module intro frame with an index of 8 or more
\* leaves inventory and tables unchanged and sends no ACK_INTRO
C24_PastLastDropped ==
    [][\A msg \in MixedFrames :
        (/\ ev' = <<"frame", msg>> /\ IsSubModIntro(msg)
         /\ IndexOf(msg) >= NODE_MAX_SUBMODS) => Untouched]_vars

\* a phase-B frame with index 127 was handled while its node was in the
\* inventory, with its sub-module 0 half introduced
C24_Witness ==
    /\ ev = <<"frame", Frame(SUBMOD_INTRO_BEGIN, Node1, 255, Tail2)>>
    /\ toHexString(Node1) \in DOMAIN canDatabase
    /\ 0 \in DOMAIN canDatabase[toHexString(Node1)].subModule
    /\ ~Complete(canDatabase[toHexString(Node1)], 0)
    /\ FxAt(fx, "broadcast") # {}

----------------------------------------------------------------------------
(* C25: idempotent re-receipt.  A sub-module intro frame, of either phase,
   for a sub-module whose two phases are complete is dropped: the fields of
   the sub-module, the parent's lastSubModIdx and the tables are unchanged
   and no ACK is sent. *)

\* C25: the step of a sub-module intro frame naming a sub-module of a known
\* node whose two phases are complete leaves inventory and tables unchanged
\* and sends no ACK_INTRO
C25_CompleteDropped ==
    [][\A msg \in MixedFrames :
        (/\ ev' = <<"frame", msg>> /\ IsSubModIntro(msg)
         /\ KeyOf(msg) \in DOMAIN canDatabase
         /\ Complete(canDatabase[KeyOf(msg)], IndexOf(msg))) => Untouched]_vars

\* after both phases of sub-module 0 and a pause, a phase-A frame with other
\* bytes than the stored ones was handled
C25_Witness ==
    /\ ev = <<"frame", Frame(SUBMOD_INTRO_BEGIN, Node1, 0, Tail3)>>
    /\ toHexString(Node1) \in DOMAIN canDatabase
    /\ Complete(canDatabase[toHexString(Node1)], 0)
    /\ canDatabase[toHexString(Node1)].subModule[0].rawConfig = Tail2
    /\ canDatabase[toHexString(Node1)].subModule[0].lastSeen < now
    /\ FxAt(fx, "broadcast") # {}

----------------------------------------------------------------------------
(* C26: every sub-module intro frame that is not dropped (parent known, index
   below 8, sub-module not yet complete in both phases) causes exactly one
   ACK_INTRO frame, whether or not it completes the sub-module; when it
   completes the sub-module, parent.lastSubModIdx is set to that index and
   the inventory row is persisted before the ACK is sent. *)

\* the frame is a sub-module intro frame the interview does not drop
Taken(msg) ==
    /\ IsSubModIntro(msg)
    /\ KeyOf(msg) \in DOMAIN canDatabase
    /\ IndexOf(msg) < NODE_MAX_SUBMODS
    /\ ~Complete(canDatabase[KeyOf(msg)], IndexOf(msg))

\* C26: the step of a sub-module intro frame that is not dropped sends one
\* ACK_INTRO, to the node of the frame; when the sub-module is complete after
\* the step, lastSubModIdx is its index and the row of the node is written
\* once, before the ACK_INTRO is sent
C26_TakenAcknowledged ==
    [][\A msg \in Frames :
        (ev' = <<"frame", msg>> /\ Taken(msg)) =>
            /\ Cardinality(SentAt(fx', ACK_INTRO_ID)) = 1
            /\ \A i \in SentAt(fx', ACK_INTRO_ID) : fx'[i] = AckFrame(msg)
            /\ Complete(canDatabase'[KeyOf(msg)], IndexOf(msg)) =>
                  /\ canDatabase'[KeyOf(msg)].lastSubModIdx = IndexOf(msg)
                  /\ Cardinality(FxAt(fx', "inventory")) = 1
                  /\ \A i \in FxAt(fx', "inventory") :
                        /\ fx'[i] = <<"inventory", KeyOf(msg)>>
                        /\ \A j \in SentAt(fx', ACK_INTRO_ID) : i < j
                  /\ KeyOf(msg) \in DOMAIN node_inventory']_vars

\* a phase-B frame completed sub-module 1 of a node whose lastSubModIdx was 0:
\* the row was written, then the frame acknowledged
C26_Witness ==
    /\ ev = <<"frame", Frame(SUBMOD_INTRO_BEGIN, Node1, 129, Tail2)>>
    /\ toHexString(Node1) \in DOMAIN canDatabase
    /\ Complete(canDatabase[toHexString(Node1)], 1)
    /\ canDatabase[toHexString(Node1)].lastSubModIdx = 1
    /\ FxAt(fx, "inventory") # {} /\ SentAt(fx, ACK_INTRO_ID) # {}
    /\ \A i \in FxAt(fx, "inventory") : \A j \in SentAt(fx, ACK_INTRO_ID) : i < j

----------------------------------------------------------------------------
(* C27: every ACK frame has the ID ACK_INTRO and a payload of 8 bytes, of
   which bytes 0..3 are the NodeId of the intro frame and bytes 4..7 are
   zero; an ACK is sent only in response to a frame of the intro range
   (0x700..0x7FF) with a payload of at least 4 bytes, at most one per inbound
   frame, and never carries the master's NodeId as a substitute. *)

\* C27: an ACK_INTRO is sent only in the step of a frame of the intro range
\* with at least 4 bytes, once, and its 8 bytes are the first four bytes of
\* that frame followed by four zeros
C27_AckShape ==
    [][SentAt(fx', ACK_INTRO_ID) # {} =>
        /\ ev'[1] = "frame"
        /\ ev'[2].id >= SUBMOD_INTRO_BEGIN /\ ev'[2].id <= INTRO_MSG_END
        /\ Len(ev'[2].data) >= NODE_ID_BYTE_LENGTH
        /\ Cardinality(SentAt(fx', ACK_INTRO_ID)) = 1
        /\ \A i \in SentAt(fx', ACK_INTRO_ID) :
              /\ Len(fx'[i][3]) = CAN_STD_DLC
              /\ fx'[i][3] = SubSeq(ev'[2].data, 1, NODE_ID_BYTE_LENGTH)
                             \o <<0, 0, 0, 0>>]_vars

\* a sub-module intro frame of Node1 was acknowledged with Node1's id
C27_Witness ==
    /\ ev = <<"frame", Frame(SUBMOD_INTRO_BEGIN, Node1, 128, Tail3)>>
    /\ \E i \in SentAt(fx, ACK_INTRO_ID) : fx[i][3] = Node1 \o <<0, 0, 0, 0>>
    /\ Node1 # myNodeId

----------------------------------------------------------------------------
(* C28: the two phases may arrive in either order.  For a known node and an
   index below 8 that is not yet interviewed, phase A then phase B yields the
   same sub-module (rawConfig, dataMsgId, dataMsgDlc, saveState, both flags)
   and the same parent lastSubModIdx as phase B then phase A, timestamps
   aside; in both orders the second frame completes the sub-module and
   triggers one persistence write. *)

PhaseA(n, i, t) == Frame(SUBMOD_INTRO_BEGIN, n, i, t)
PhaseB(n, i, t) == Frame(SUBMOD_INTRO_BEGIN, n, SUBMOD_PARTB_OFFSET + i, t)

\* the interview of two frames in a row, from the state as it is
Interview2(first, second) ==
    LET S1 == updateNodeDatabase(Ctx, first)
        S2 == updateNodeDatabase([S1 EXCEPT !.fx = <<>>], second)
    IN [first |-> S1, second |-> S2]

\* the fields of a sub-module the two phases fill
Interviewed(sub) ==
    [f \in {"rawConfig", "dataMsgId", "dataMsgDlc", "saveState",
            "partAComplete", "partBComplete"} |-> Get(sub, f)]

\* sub-module i of the node is not yet interviewed
Fresh(node, i) ==
    i \in DOMAIN node.subModule =>
        /\ ~Flag(node.subModule[i], "partAComplete")
        /\ ~Flag(node.subModule[i], "partBComplete")

\* the first frame leaves the sub-module incomplete and writes no row, the
\* second completes it and writes one
SecondCompletes(R, k, i) ==
    /\ ~Complete(R.first.db[k], i) /\ FxAt(R.first.fx, "inventory") = {}
    /\ Complete(R.second.db[k], i)
    /\ Cardinality(FxAt(R.second.fx, "inventory")) = 1

\* C28: from every state, for a node of the inventory and an index below 8
\* not yet interviewed, the two orders of a phase-A and a phase-B frame end
\* with the same sub-module and the same lastSubModIdx, and in both the
\* second frame completes the sub-module and writes the row once
C28_EitherOrder ==
    \A n \in NodeIds, i \in {0, 1, NODE_MAX_SUBMODS - 1}, ta, tb \in {Tail2, Tail3} :
        LET k == toHexString(n)
            AB == Interview2(PhaseA(n, i, ta), PhaseB(n, i, tb))
            BA == Interview2(PhaseB(n, i, tb), PhaseA(n, i, ta))
        IN (k \in DOMAIN canDatabase /\ Fresh(canDatabase[k], i)) =>
              /\ Interviewed(AB.second.db[k].subModule[i])
                    = Interviewed(BA.second.db[k].subModule[i])
              /\ AB.second.db[k].lastSubModIdx = BA.second.db[k].lastSubModIdx
              /\ AB.second.db[k].lastSubModIdx = i
              /\ SecondCompletes(AB, k, i) /\ SecondCompletes(BA, k, i)

\* sub-module 0 was completed by its phase-A frame, phase B having come
\* first: it holds the bytes of both frames and the row was written
C28_Witness ==
    /\ ev = <<"frame", PhaseA(Node1, 0, Tail2)>>
    /\ toHexString(Node1) \in DOMAIN canDatabase
    /\ Complete(canDatabase[toHexString(Node1)], 0)
    /\ canDatabase[toHexString(Node1)].subModule[0].rawConfig = Tail2
    /\ canDatabase[toHexString(Node1)].subModule[0].dataMsgId = BE16(Tail3[1], Tail3[2])
    /\ Cardinality(FxAt(fx, "inventory")) = 1
    /\ SentAt(fx, ACK_INTRO_ID) # {}

----------------------------------------------------------------------------
(* C29: data-model ranges.  For every sub-module in the inventory, after any
   sequence of intro frames and operator updates, dataMsgDlc lies in 0..8
   and dataMsgId fits in 11 bits; in particular a phase-B frame whose byte 7
   has a low nibble above 8, or whose bytes 5..6 exceed 0x7FF, does not
   produce an out-of-range stored value. *)

\* the sub-modules of the inventory, as pairs of node key and index
SubModules ==
    {<<k, i>> \in (DOMAIN canDatabase) \X ((0..(NODE_MAX_SUBMODS - 1)) \cup {Undef}) :
        i \in DOMAIN canDatabase[k].subModule}

\* C29: every stored dataMsgDlc is in 0..8 and every stored dataMsgId is
\* below 2^11
C29_Ranges ==
    \A s \in SubModules :
        LET sub == canDatabase[s[1]].subModule[s[2]]
        IN /\ Get(sub, "dataMsgDlc") # Undef =>
                sub.dataMsgDlc >= 0 /\ sub.dataMsgDlc <= CAN_STD_DLC
           /\ Get(sub, "dataMsgId") # Undef =>
                sub.dataMsgId >= 0 /\ sub.dataMsgId < 2 ^ 11

\* a phase-B frame with bytes 5..7 = AA BB CC was taken: the sub-module holds
\* the data message id 0xAABB and the dlc 12
C29_Witness ==
    /\ ev = <<"frame", Frame(SUBMOD_INTRO_BEGIN, Node1, SUBMOD_PARTB_OFFSET, Tail3)>>
    /\ toHexString(Node1) \in DOMAIN canDatabase
    /\ 0 \in DOMAIN canDatabase[toHexString(Node1)].subModule
    /\ Get(canDatabase[toHexString(Node1)].subModule[0], "dataMsgId") = 170 * 256 + 187
    /\ Get(canDatabase[toHexString(Node1)].subModule[0], "dataMsgDlc") = 12
    /\ SentAt(fx, ACK_INTRO_ID) # {}

----------------------------------------------------------------------------
(* C30: the core never deletes a node.  The set of inventory keys only grows
   over any sequence of bus frames, operator messages and heartbeat ticks; a
   key is added only by a node-intro frame (0x780..0x7FF, payload of at least
   4 bytes) carrying that NodeId, and REQUEST_NODE_INTERVIEW or
   UPDATE_NODE_CONFIG for an unknown id adds none. *)

\* C30: no step removes a key of the inventory; a step that adds one is the
\* step of a node-intro frame of at least 4 bytes naming it; the step of an
\* operator message naming a node that is not there leaves the inventory as
\* it is
C30_KeysOnlyGrow ==
    [][/\ DOMAIN canDatabase \subseteq DOMAIN canDatabase'
       /\ \A k \in (DOMAIN canDatabase') \ (DOMAIN canDatabase) :
            ev'[1] = "frame" /\ IsNodeIntro(ev'[2]) /\ KeyOf(ev'[2]) = k
       /\ (ev'[1] = "ws" /\ ev'[2].nodeId \notin DOMAIN canDatabase)
            => canDatabase' = canDatabase]_vars

\* Node1 announced itself, a heartbeat ticked, and an operator asked for the
\* interview of Node2, which is not in the inventory
C30_Witness ==
    /\ ev = <<"ws", [type |-> "REQUEST_NODE_INTERVIEW", nodeId |-> toHexString(Node2)]>>
    /\ DOMAIN canDatabase = {toHexString(Node1)}
    /\ \E p \in DOMAIN silent : silent[p] >= 1
    /\ SentAt(fx, REQ_NODE_INTRO_ID) # {}

----------------------------------------------------------------------------
(* An operator whose messages are not all well formed: text that is no JSON,
   types no listing knows, updates that make the handler throw, next to an
   update that is in order, for a node that finished its interview. *)

MaxOperatorEvents == 5

OperatorFrames ==
    {Frame(INTRO_MSG_BEGIN, Node1, 1, Tail1),
     Frame(SUBMOD_INTRO_BEGIN, Node1, 0, Tail2),
     Frame(SUBMOD_INTRO_BEGIN, Node1, SUBMOD_PARTB_OFFSET, Tail2)}

\* an UPDATE_NODE_CONFIG that carries no rawConfig
UpdateWithoutRaw(n, i, id, dlc) ==
    [type |-> "UPDATE_NODE_CONFIG", nodeId |-> n, subModIdx |-> i,
     dataMsgId |-> id, dataMsgDlc |-> dlc]

OperatorMessages ==
    {[text |-> "{"],
     [type |-> "PING"],
     [type |-> "REQUEST_NODE_INTERVIEW", nodeId |-> toHexString(Node1)],
     UpdateRequest(toHexString(Node1), 1, <<529, 8, Tail2>>),
     UpdateRequest(toHexString(Node1), 0, <<528, 300, Tail2>>),
     UpdateWithoutRaw(toHexString(Node1), 0, 529, 8),
     UpdateRequest(toHexString(Node1), 0, <<529, 8, Tail2>>)}

OnOperatorFrame ==
    \E msg \in OperatorFrames : nEvents < MaxOperatorEvents /\ Receive(msg)

OnOperatorMessage ==
    \E message \in OperatorMessages, r \in {1, 2} :
        nEvents < MaxOperatorEvents /\ Operate(message, r)

NextOperator == OnConnection \/ OnOperatorFrame \/ OnOperatorMessage

SpecOperator == Init /\ [][NextOperator]_vars

----------------------------------------------------------------------------
(* C31: an operator message that cannot be parsed, has an unknown type, or
   makes its handler raise an error is logged and ignored: the inventory,
   the persisted tables and the bus output are unchanged by it, the
   connection stays open, and later messages on the same port are still
   handled. *)

\* the types the switch of listing r has a case for
KnownTypes(r) ==
    IF r = 1 THEN {"UPDATE_NODE_CONFIG"}
    ELSE {"UPDATE_NODE_CONFIG", "REQUEST_NODE_INTERVIEW"}

\* the message is text that is no JSON, or of a type without a case
Unhandled(message, r) == ~parses(message) \/ message.type \notin KnownTypes(r)

\* the handler of the message raises an error in the state as it is
Raises(message, r) == parses(message) /\ dispatch(Ctx, message, r).threw

\* the step logs, and leaves inventory, tables, bus and ports as they are
LoggedAndIgnored ==
    /\ FxAt(fx', "log") # {}
    /\ canDatabase' = canDatabase
    /\ node_inventory' = node_inventory
    /\ node_history' = node_history
    /\ audit_log' = audit_log
    /\ FxAt(fx', "send") = {}
    /\ clients' = clients

\* C31: the step of an operator message that is no JSON, has a type without
\* a case, or makes its handler raise an error, logs and changes neither the
\* inventory nor the tables nor the ports, and sends no frame
C31_LoggedAndIgnored ==
    [][\A message \in OperatorMessages :
        (/\ ev' = <<"ws", message>>
         /\ Unhandled(message, rev) \/ Raises(message, rev)) => LoggedAndIgnored]_vars

\* the part that holds: a message that is no JSON or has a type without a
\* case, and an update the second listing receives or that names a
\* sub-module the node does not have, is logged and ignored, and after every
\* operator message the ports are as before
C31_IgnoredBeforeEffects ==
    [][\A message \in OperatorMessages :
        ev' = <<"ws", message>> =>
            /\ clients' = clients
            /\ (\/ Unhandled(message, rev)
                \/ (IsUpdate(message) /\ rev = 2)
                \/ (IsUpdate(message) /\ ~Targets(message))) => LoggedAndIgnored]_vars

\* an update without rawConfig changed the data message id of a complete
\* sub-module: the frame was sent, the audit rows written and the inventory
\* changed before the handler threw and the message handler logged the error
C31_Witness ==
    /\ ev = <<"ws", UpdateWithoutRaw(toHexString(Node1), 0, 529, 8)>>
    /\ rev = 1
    /\ toHexString(Node1) \in DOMAIN node_inventory
    /\ Complete(canDatabase[toHexString(Node1)], 0)
    /\ 0 \in DOMAIN node_inventory[toHexString(Node1)].full_data
    /\ canDatabase[toHexString(Node1)].subModule[0].dataMsgId = 529
    /\ node_inventory[toHexString(Node1)].full_data[0].dataMsgId = 528
    /\ SentAt(fx, CFG_SUB_DATA_MSG_ID) # {}
    /\ FxAt(fx, "audit") # {}
    /\ fx[Len(fx)] = <<"log", "error">>
    /\ FxAt(fx, "ws") = {}

----------------------------------------------------------------------------
(* One node and the engine, frame by frame: the node announces itself with a
   sub-module count and answers every ACK_INTRO with its next pending frame,
   sub-module 0 phase A, phase B, and so on to the last sub-module, then its
   node-intro frame again. *)

MaxExchangeEvents == 18

Announcement(k) == Frame(INTRO_MSG_BEGIN, Node1, k, Tail1)

\* the count the node reported, as the engine took it from its node-intro frame
Reported == canDatabase[toHexString(Node1)].subModCnt

\* the frame the node sends when its frame msg is acknowledged
NextPending(msg, k) ==
    IF msg.id = INTRO_MSG_BEGIN THEN Frame(SUBMOD_INTRO_BEGIN, Node1, 0, Tail2)
    ELSE LET tag == msg.data[SUBMODID_OFFSET + 1]
         IN IF tag < SUBMOD_PARTB_OFFSET
            THEN Frame(SUBMOD_INTRO_BEGIN, Node1, tag + SUBMOD_PARTB_OFFSET, Tail2)
            ELSE IF tag - SUBMOD_PARTB_OFFSET < k - 1
            THEN Frame(SUBMOD_INTRO_BEGIN, Node1, tag - SUBMOD_PARTB_OFFSET + 1, Tail2)
            ELSE Announcement(k)

\* the node has not yet come up
Down == ev = <<"init">> /\ nEvents < MaxExchangeEvents

\* the last frame of the node was acknowledged
Acknowledged ==
    /\ ev[1] = "frame"
    /\ \E i \in 1..Len(fx) : fx[i][1] = "send" /\ fx[i][2] = ACK_INTRO_ID
    /\ nEvents < MaxExchangeEvents

\* the node comes up and sends its node-intro frame
Announce ==
    \E k \in 1..NODE_MAX_SUBMODS : Down /\ Receive(Announcement(k))

\* the last frame of the node was acknowledged: it sends the next one
Answer == Acknowledged /\ Receive(NextPending(ev[2], Reported))

NextExchange == Announce \/ Answer

\* a frame of the node is due and is handled
FrameDue == (Down \/ Acknowledged) /\ nEvents' = nEvents + 1

\* the node and the engine do not stop while a frame is due: the node sends
\* it and the listener runs
SpecExchange == Init /\ [][NextExchange]_vars /\ WF_nEvents(FrameDue)

----------------------------------------------------------------------------
(* C32: interview completion.  For a node reporting subModCnt = k with
   1 <= k <= 8 that answers each ACK_INTRO with its next pending frame in
   order, the engine eventually holds k sub-modules with both phases
   complete, sets introComplete = true, persists the node, and sends no
   further ACK, so the exchange terminates. *)

\* the node is in the inventory with as many complete sub-modules as it
\* reported and introComplete set, its row is written with them, and its last
\* frame was not acknowledged
Interviewed32 ==
    /\ toHexString(Node1) \in DOMAIN canDatabase
    /\ LET node == canDatabase[toHexString(Node1)]
       IN /\ \A i \in 0..(node.subModCnt - 1) : Complete(node, i)
          /\ Flag(node, "introComplete")
          /\ toHexString(Node1) \in DOMAIN node_inventory
          /\ DOMAIN node_inventory[toHexString(Node1)].full_data
                = 0..(node.subModCnt - 1)
    /\ SentAt(fx, ACK_INTRO_ID) = {}

\* C32: whatever count from 1 to 8 the node reports, the exchange reaches a
\* state, and stays in it, where the engine holds that many complete
\* sub-modules, introComplete is set, the row is written and no ACK_INTRO is
\* sent
C32_InterviewCompletes == <>[]Interviewed32

\* the part that holds: a node that reports 2 to 8 sub-modules is interviewed
\* to the end
C32_CompletesFromTwo ==
    <>[](ev # <<"init">> => (Reported >= 2 => Interviewed32))

\* a node that reported one sub-module was marked complete at its first
\* frame: no sub-module, no ACK_INTRO, and the exchange is over
C32_Witness ==
    /\ ev = <<"frame", Announcement(1)>>
    /\ Flag(canDatabase[toHexString(Node1)], "introComplete")
    /\ DOMAIN canDatabase[toHexString(Node1)].subModule = {}
    /\ SentAt(fx, ACK_INTRO_ID) = {}
    /\ ~Down /\ ~Acknowledged

----------------------------------------------------------------------------
(* C33: retry after a persistence failure.  When the persistence transaction
   of a changed SUBMODULE update failed, a retry of the identical
   UPDATE_NODE_CONFIG is again treated as a change, so that the inventory row
   and a history row are written and an UPDATE_ACK is sent once persistence
   succeeds; the retry is not swallowed as a no-op. *)

\* the row of the node does not hold the sub-module the update names as the
\* inventory holds it
Stale(request) ==
    \/ request.nodeId \notin DOMAIN node_inventory
    \/ request.subModIdx \notin DOMAIN node_inventory[request.nodeId].full_data
    \/ node_inventory[request.nodeId].full_data[request.subModIdx]
          # JsonSub(TargetSub(request))

\* the update was applied and audited last, and its transaction failed: the
\* inventory holds its values, the row does not
FailedBefore(request) ==
    /\ Targets(request) /\ SameDataMsg(request) /\ SameRawConfig(request)
    /\ audit_log # <<>>
    /\ LET a == audit_log[Len(audit_log)]
       IN /\ a.node_id = request.nodeId /\ a.sub_idx = request.subModIdx
          /\ a.new_value = AuditValue(a.field, request[a.field])
    /\ Stale(request)

\* C33: when the statements run again, the step of an update whose
\* transaction failed before writes the inventory row and a history row and
\* sends UPDATE_ACK
C33_RetryPersists ==
    [][\A request \in FaultRequests :
        (/\ ev' = <<"ws", request>> /\ rev = 1 /\ dbFail = {}
         /\ FailedBefore(request)) =>
            /\ FxAt(fx', "inventory") # {} /\ FxAt(fx', "history") # {}
            /\ FxAt(fx', "ws") # {}
            /\ ~Stale(request)']_vars

\* the retry of an update whose transaction had failed did nothing at all,
\* although the statements ran again: the row is still the one of before
C33_Witness ==
    /\ ev[1] = "ws" /\ rev = 1 /\ dbFail = {}
    /\ FailedBefore(ev[2])
    /\ fx = <<>>

----------------------------------------------------------------------------
(* The inventory row of an interviewed node *)

\* the row of node n holds what a synchronisation of the in-memory node
\* would write now
RowAgrees(n) ==
    /\ n \in DOMAIN node_inventory
    /\ node_inventory[n].node_type_msg = Bind(Get(canDatabase[n], "nodeTypeMsg"))
    /\ node_inventory[n].sub_mod_cnt = Bind(Get(canDatabase[n], "subModCnt"))
    /\ node_inventory[n].config_crc = Bind(Get(canDatabase[n], "configCrc"))
    /\ node_inventory[n].last_seen = Bind(Get(canDatabase[n], "lastSeen"))
    /\ node_inventory[n].full_data = JsonSubModule(canDatabase[n].subModule)

\* C34: between two events, the node_inventory row of every node whose
\* introComplete is true agrees with the in-memory node on node_type_msg,
\* sub_mod_cnt, config_crc, last_seen and the sub-module map
C34_RowAgreesWithMemory ==
    \A n \in DOMAIN canDatabase :
        Flag(canDatabase[n], "introComplete") => RowAgrees(n)

\* an interviewed node announced itself again with a larger sub-module
\* count: memory holds the new count, the row the old one
C34_Witness ==
    /\ ev[1] = "frame" /\ IsNodeIntro(ev[2])
    /\ KeyOf(ev[2]) \in DOMAIN canDatabase
    /\ Flag(canDatabase[KeyOf(ev[2])], "introComplete")
    /\ KeyOf(ev[2]) \in DOMAIN node_inventory
    /\ FxAt(fx, "inventory") = {}
    /\ canDatabase[KeyOf(ev[2])].subModCnt = 2
    /\ node_inventory[KeyOf(ev[2])].sub_mod_cnt = 1

----------------------------------------------------------------------------
(* What the bus can do to an interviewed sub-module *)

\* the configuration of sub-module i of a node: raw configuration, data
\* message id and dlc, save flag
Configuration(node, i) ==
    <<Get(node.subModule[i], "rawConfig"), Get(node.subModule[i], "dataMsgId"),
      Get(node.subModule[i], "dataMsgDlc"), Get(node.subModule[i], "saveState")>>

\* sub-module i of node n is kept by the step, with its configuration
Kept(n, i) ==
    /\ n \in DOMAIN canDatabase'
    /\ i \in DOMAIN canDatabase'[n].subModule
    /\ Configuration(canDatabase'[n], i) = Configuration(canDatabase[n], i)

\* C35: the step of a bus frame leaves every sub-module that has both phases
\* complete in the inventory, with the rawConfig, dataMsgId, dataMsgDlc and
\* saveState it had
C35_CompleteKept ==
    [][ev'[1] = "frame" =>
        \A n \in DOMAIN canDatabase : \A i \in DOMAIN canDatabase[n].subModule :
            Complete(canDatabase[n], i) => Kept(n, i)]_vars

\* a node-intro frame with another CRC was handled while sub-module 0 was
\* complete, and the sub-module is still there
C35_Witness ==
    /\ ev[1] = "frame" /\ IsNodeIntro(ev[2])
    /\ node_history # <<>>
    /\ KeyOf(ev[2]) \in DOMAIN canDatabase
    /\ Complete(canDatabase[KeyOf(ev[2])], 0)
    /\ FxAt(fx, "history") # {}

\* a phase-A frame with other bytes was received for a complete sub-module,
\* whose raw configuration is not the frame's
C35_WitnessRepeated ==
    /\ ev[1] = "frame" /\ IsSubModIntro(ev[2])
    /\ KeyOf(ev[2]) \in DOMAIN canDatabase
    /\ Complete(canDatabase[KeyOf(ev[2])], 0)
    /\ TagOf(ev[2]) = 0
    /\ canDatabase[KeyOf(ev[2])].subModule[0].rawConfig # SubSeq(ev[2].data, 6, 8)

----------------------------------------------------------------------------
(* A statement that throws while a bus frame is handled *)

\* the frame of the step is one the interview takes: a node-intro frame, or
\* a frame of a sub-module of a known node that is not complete yet
TakenUnderFault(msg) ==
    \/ IsNodeIntro(msg)
    \/ /\ IsSubModIntro(msg)
       /\ KeyOf(msg) \in DOMAIN canDatabase
       /\ ~Complete(canDatabase[KeyOf(msg)], IndexOf(msg))

\* the step of the frame completed the interview of the node
EndsInterview(msg) ==
    /\ IsNodeIntro(msg)
    /\ Flag(canDatabase'[KeyOf(msg)], "introComplete")
    /\ SentAt(fx', ACK_INTRO_ID) = {}

\* C36: while statements throw, the step of a frame still broadcasts
\* CAN_MESSAGE and still runs the housekeeping check, a frame the interview
\* takes is still acknowledged, and a sub-module that is complete in memory
\* has been acknowledged in the step that completed it
C36_FaultNotSuppressing ==
    [][\A msg \in FaultFrames :
        (ev' = <<"frame", msg>> /\ dbFail # {}) =>
            /\ FxAt(fx', "broadcast") # {}
            /\ lastReqIntro = 0 => lastReqIntro' = now
            /\ (TakenUnderFault(msg) /\ ~EndsInterview(msg))
                  => SentAt(fx', ACK_INTRO_ID) # {}]_vars

\* phase B of sub-module 0 arrived while the inventory upsert threw: the
\* sub-module is complete in memory, nothing was written, acknowledged or
\* broadcast
C36_Witness ==
    /\ ev = <<"frame", Frame(SUBMOD_INTRO_BEGIN, Node1, 128, Tail2)>>
    /\ dbFail = {"insertInventory"}
    /\ toHexString(Node1) \in DOMAIN canDatabase
    /\ Complete(canDatabase[toHexString(Node1)], 0)
    /\ fx # <<>>
    /\ FxAt(fx, "inventory") = {}
    /\ SentAt(fx, ACK_INTRO_ID) = {}
    /\ FxAt(fx, "broadcast") = {}

\* the same frame arrived again after the statements had recovered: it is
\* dropped as already interviewed, without a write and without an ACK_INTRO
C36_WitnessForGood ==
    /\ ev = <<"frame", Frame(SUBMOD_INTRO_BEGIN, Node1, 128, Tail2)>>
    /\ dbFail = {}
    /\ toHexString(Node1) \in DOMAIN canDatabase
    /\ Complete(canDatabase[toHexString(Node1)], 0)
    /\ toHexString(Node1) \notin DOMAIN node_inventory
    /\ SentAt(fx, ACK_INTRO_ID) = {}
    /\ FxAt(fx, "broadcast") # {}

----------------------------------------------------------------------------
(* Frames of message ids outside the two intro ranges *)

\* a frame of four bytes or more whose id is in neither intro range
Foreign(msg) ==
    /\ Len(msg.data) >= NODE_ID_BYTE_LENGTH
    /\ (msg.id < SUBMOD_INTRO_BEGIN \/ msg.id > INTRO_MSG_END)

\* the effects of a step are frames of the scheduler and one CAN_MESSAGE, the
\* last of them
SchedulerAndBroadcast(f) ==
    /\ \A i \in 1..Len(f) :
          \/ f[i][1] = "send" /\ f[i][2] \in {REQ_NODE_INTRO_ID, DATA_EPOCH_ID}
          \/ f[i][1] = "broadcast" /\ i = Len(f)
    /\ FxAt(f, "broadcast") # {}

\* C37: the step of a frame of four bytes or more whose id is outside
\* 0x700..0x7FF leaves the inventory and the tables unchanged and sends no
\* ACK_INTRO; its effects are the scheduler's frames and the CAN_MESSAGE
C37_ForeignFrame ==
    [][\A msg \in MixedFrames :
        (ev' = <<"frame", msg>> /\ Foreign(msg)) =>
            /\ Untouched
            /\ SchedulerAndBroadcast(fx')]_vars

\* a frame with the id below the sub-module range, naming a known node and
\* its sub-module 0, was handled when the epoch frame was due
C37_Witness ==
    /\ ev = <<"frame", Frame(SUBMOD_INTRO_BEGIN - 1, Node1, 0, Tail2)>>
    /\ toHexString(Node1) \in DOMAIN canDatabase
    /\ canDatabase[toHexString(Node1)].subModule = EmptyObj
    /\ SentAt(fx, DATA_EPOCH_ID) # {}
    /\ FxAt(fx, "broadcast") # {}

----------------------------------------------------------------------------
(* The keys of the sub-module maps *)

\* C38: every sub-module of the inventory sits under a key in 0..7 and its
\* subModIdx field is that key
C38_KeyIsIndex ==
    \A k \in DOMAIN canDatabase : \A i \in DOMAIN canDatabase[k].subModule :
        /\ i \in 0..(NODE_MAX_SUBMODS - 1)
        /\ Get(canDatabase[k].subModule[i], "subModIdx") = i

\* what holds of the keys that are numbers: they are in 0..7 and equal the
\* subModIdx field, for phase-A and phase-B frames alike
C38_NumberKeys ==
    \A k \in DOMAIN canDatabase : \A i \in DOMAIN canDatabase[k].subModule :
        i # Undef =>
            /\ i \in 0..(NODE_MAX_SUBMODS - 1)
            /\ Get(canDatabase[k].subModule[i], "subModIdx") = i

\* a sub-module frame of four bytes was taken: its tag is undefined, and a
\* sub-module was stored under the key undefined and acknowledged
C38_Witness ==
    /\ ev = <<"frame", Short(Frame(SUBMOD_INTRO_BEGIN, Node1, 0, Tail2), 4)>>
    /\ toHexString(Node1) \in DOMAIN canDatabase
    /\ Undef \in DOMAIN canDatabase[toHexString(Node1)].subModule
    /\ Flag(canDatabase[toHexString(Node1)].subModule[Undef], "partAComplete")
    /\ SentAt(fx, ACK_INTRO_ID) # {}

----------------------------------------------------------------------------
(* The operator's interview request and the scheduler's timers *)

\* C39: the step of a REQUEST_NODE_INTERVIEW (second listing) leaves
\* lastReqIntro and lastTsMsg as they were and sends one REQ_NODE_INTRO frame
\* to the node it names; when the node is not in the inventory the frame is
\* sent all the same and the inventory and the tables are unchanged
C39_TimersKept ==
    [][(ev'[1] = "ws" /\ IsInterviewRequest(ev'[2]) /\ rev = 2) =>
        /\ lastReqIntro' = lastReqIntro
        /\ lastTsMsg' = lastTsMsg
        /\ Sent(fx') = << <<"send", REQ_NODE_INTRO_ID,
                            IdBytes(ev'[2].nodeId) \o <<0, 0, 0, 0>>>> >>
        /\ ev'[2].nodeId \notin DOMAIN canDatabase =>
              /\ canDatabase' = canDatabase
              /\ node_inventory' = node_inventory
              /\ node_history' = node_history
              /\ audit_log' = audit_log]_vars

\* the operator asked for the interview of a node that is not in the
\* inventory while the scheduler's scan was due: the frame was sent and the
\* scan is still due
C39_Witness ==
    /\ ev[1] = "ws" /\ IsInterviewRequest(ev[2]) /\ rev = 2
    /\ ev[2].nodeId \notin DOMAIN canDatabase
    /\ canDatabase # EmptyObj
    /\ SentAt(fx, REQ_NODE_INTRO_ID) # {}
    /\ lastReqIntro > 0
    /\ IntroDue

====
